---- MODULE Spec2Model ----
(***************************************************************************)
(* A model of the spectrogram generator: the command-line flow of          *)
(* src/index.ts and the computation and rendering engine of                *)
(* SpectrogramGenerator (src/audio-processor.ts, lines 328-1307).          *)
(*                                                                         *)
(* Numbers.  JavaScript numbers are modelled in fixed point:               *)
(*   - amplitudes, window coefficients and FFT values in units of 1/SCALE; *)
(*   - powers in units of 1/SCALE^2;                                       *)
(*   - dB values in units of 1/DB_SCALE dB;                                *)
(*   - times and other exact quotients as rationals [n, d];                *)
(*   - NaN, null and +/-Infinity as reserved integers.                     *)
(* IEEE rounding is not modelled, a quotient is the exact quotient, except *)
(* where a floor or a ceiling turns a rounding error into a whole unit: in *)
(* the window bounds of the downsamplers (StepRoundedBelow), in the colour *)
(* channels (ChannelRoundedBelow) and in the widths of the parts           *)
(* (PartRangeRoundedAbove).                                                *)
(*                                                                         *)
(* Sizes.  The sample-domain constants of the source are scaled down so    *)
(* that whole runs can be enumerated: DEFAULT_FFT_SIZE is 4 (source 2048), *)
(* DEFAULT_HOP_SIZE is 2 (source 512) and MAX_WIDTH is 2 (source 2048).    *)
(* MAX_CANVAS_SIZE and the dB constants keep the values of the source.     *)
(***************************************************************************)
EXTENDS Integers, Sequences, FiniteSets, TLC

VARIABLES
    audioData,      \* the decoded audio: samples, sampleRate, duration
    options,        \* the parsed command-line options of the run
    pc,             \* position of the command-line action (index.ts 33-209)
    partIndex,      \* the loop counter i of the part loop (index.ts 143)
    globalDbRange,  \* the result of calculateGlobalDbRange, or NoRange
    calls,          \* the calls made on the generator so far, in order
    files,          \* the image files written so far, in order
    args,           \* arguments of a direct call of one generator method
    result          \* what that call returned, or Pending

vars == <<audioData, options, pc, partIndex, globalDbRange, calls, files, args, result>>

(***************************************************************************)
(* Reserved values and fixed point.                                        *)
(***************************************************************************)
NaN == -(2^30)
Null == NaN + 1
NegInfinity == NaN + 2
PosInfinity == 2^30
SCALE == 10 * 100
DB_SCALE == 10 * 10

IsNaN(x) == x = NaN

Add(x, y) == IF IsNaN(x) \/ IsNaN(y) THEN NaN ELSE x + y
Sub(x, y) == IF IsNaN(x) \/ IsNaN(y) THEN NaN ELSE x - y
\* product of two fixed-point values, again in units of 1/SCALE
Mul(x, y) == IF IsNaN(x) \/ IsNaN(y) THEN NaN ELSE (x * y) \div SCALE

Abs(x) == IF x < 0 THEN -x ELSE x
Max(a, b) == IF a >= b THEN a ELSE b
Min(a, b) == IF a <= b THEN a ELSE b

\* F(v), with v evaluated once however often F refers to it: the value of a
\* local constant of the source
Bind(v, F(_)) == CHOOSE r \in {F(x) : x \in {v}} : TRUE

\* the sequence s itself, as a tuple of evaluated elements
Fixed(s) == SubSeq(s, 1, Len(s))

RECURSIVE Gcd(_, _)
Gcd(a, b) == IF b = 0 THEN a ELSE Bind(a % b, LAMBDA r : Gcd(b, r))

\* the rational n/d, d > 0, in lowest terms
Rat(n, d) ==
    Bind(<<n, d, Gcd(Abs(n), Abs(d))>>,
         LAMBDA p : IF p[2] < 0
                    THEN [n |-> (-p[1]) \div p[3], d |-> (-p[2]) \div p[3]]
                    ELSE [n |-> p[1] \div p[3], d |-> p[2] \div p[3]])
RInt(k) == [n |-> k, d |-> 1]
RAdd(a, b) ==
    Bind(<<a, b>>, LAMBDA p : Rat(p[1].n * p[2].d + p[2].n * p[1].d,
                                  p[1].d * p[2].d))
RSub(a, b) ==
    Bind(<<a, b>>, LAMBDA p : Rat(p[1].n * p[2].d - p[2].n * p[1].d,
                                  p[1].d * p[2].d))
RMul(a, b) ==
    Bind(<<a, b>>, LAMBDA p : Rat(p[1].n * p[2].n, p[1].d * p[2].d))
RDiv(a, b) ==
    Bind(<<a, b>>, LAMBDA p : Rat(p[1].n * p[2].d, p[1].d * p[2].n))
RLess(a, b) == Bind(<<a, b>>, LAMBDA p : p[1].n * p[2].d < p[2].n * p[1].d)
RLeq(a, b) == Bind(<<a, b>>, LAMBDA p : p[1].n * p[2].d <= p[2].n * p[1].d)
RMin(a, b) ==
    Bind(<<a, b>>, LAMBDA p : IF RLeq(p[1], p[2]) THEN p[1] ELSE p[2])
RFloor(a) == Bind(a, LAMBDA p : p.n \div p.d)
RCeil(a) == Bind(a, LAMBDA p : -((-p.n) \div p.d))

RECURSIVE Pow(_, _)
Pow(b, e) == IF e = 0 THEN 1 ELSE b * Pow(b, e - 1)

(***************************************************************************)
(* constants.ts (audio-processor.ts 1405-1500).                            *)
(***************************************************************************)
MIN_DB_DISPLAY == -120
MAX_DB_THEORETICAL == 0
\* REFERENCE_LEVEL 1.0, in units of 1/SCALE
REFERENCE_LEVEL == 1000
\* MIN_POWER_VALUE is 1e-12: the exponent
MIN_POWER_DIGITS == 12
DEFAULT_FFT_SIZE == 4
DEFAULT_HOP_SIZE == 2
\* window coefficients, in units of 1/SCALE
HANNING_COEFFICIENT == 500
HAMMING_COEFFICIENT_A == 540
HAMMING_COEFFICIENT_B == 460
BLACKMAN_COEFFICIENT_A == 420
BLACKMAN_COEFFICIENT_B == 500
BLACKMAN_COEFFICIENT_C == 80
RECTANGULAR_COEFFICIENT == 1000
MAX_CANVAS_SIZE == 16384
MAX_WIDTH == 2

MinDbDisplay == MIN_DB_DISPLAY * DB_SCALE
MaxDbTheoretical == MAX_DB_THEORETICAL * DB_SCALE

(***************************************************************************)
(* Math.cos, Math.sin and Math.log10 in fixed point.                       *)
(***************************************************************************)
\* 1000 * cos(2 pi k / n), k = 0 .. n-1, rounded to the nearest unit
CosTable ==
    << <<1000>>,
       <<1000, -1000>>,
       <<1000, -500, -500>>,
       <<1000, 0, -1000, 0>>,
       <<1000, 309, -809, -809, 309>>,
       <<1000, 500, -500, -1000, -500, 500>>,
       <<1000, 623, -223, -901, -901, -223, 623>>,
       <<1000, 707, 0, -707, -1000, -707, 0, 707>> >>

\* Math.cos(2 pi k / n); k / 0 is NaN (0/0) for k = 0 and Infinity
\* otherwise, and the cosine of either is NaN
Cos2Pi(k, n) == IF n = 0 THEN NaN ELSE CosTable[n][(k % n) + 1]

\* Math.sin(2 pi k / n) for the n the FFT uses (1, 2 and multiples of 4)
Sin2Pi(k, n) == IF n % 4 = 0 THEN Cos2Pi(k + 3 * (n \div 4), n) ELSE 0

RECURSIVE FloorLog2(_)
FloorLog2(n) == IF n < 2 THEN 0 ELSE 1 + FloorLog2(n \div 2)

RECURSIVE CeilLog2(_)
CeilLog2(n) == IF n <= 1 THEN 0 ELSE 1 + CeilLog2((n + 1) \div 2)

\* the fraction bits of log2 of a mantissa m in [2^14, 2^15), by squaring
RECURSIVE Log2Frac(_, _)
Log2Frac(m, bits) ==
    IF bits = 0 THEN 0
    ELSE Bind((m * m) \div (2^14),
              LAMBDA sq : IF sq >= 2^15
                          THEN 2^(bits - 1) + Log2Frac(sq \div 2, bits - 1)
                          ELSE Log2Frac(sq, bits - 1))

\* log2(n) for an integer n >= 1, in units of 1/1024
Log2Fix(n) ==
    Bind(<<n, FloorLog2(n)>>,
         LAMBDA p : p[2] * 1024
                    + Log2Frac(IF p[2] >= 14 THEN p[1] \div (2^(p[2] - 14))
                               ELSE p[1] * (2^(14 - p[2])), 10))

\* 10 * Math.log10(num / den) in units of 1/DB_SCALE dB, num, den >= 1
TenLog10(num, den) ==
    ((Log2Fix(num) - Log2Fix(den)) * 30103) \div (1024 * 100)

\* num / den > 10^(-digits)
RECURSIVE AbovePowerOfTenth(_, _, _)
AbovePowerOfTenth(num, den, digits) ==
    IF digits = 0 THEN num > den
    ELSE IF num > den THEN TRUE
    ELSE AbovePowerOfTenth(num * 10, den, digits - 1)

(***************************************************************************)
(* Arrays are sequences; the source's index i is position i + 1.           *)
(***************************************************************************)
\* a read of a[i]: undefined, hence NaN in arithmetic, outside the array
At0(a, i) == IF i >= 0 /\ i < Len(a) THEN a[i + 1] ELSE NaN
\* a write a[i] = v to a typed array: ignored outside the array
Put0(a, i, v) == IF i >= 0 /\ i < Len(a) THEN [a EXCEPT ![i + 1] = v] ELSE a

WindowTypes == {"hanning", "hamming", "blackman", "rectangular"}

\* the window coefficient of index i in a frame of n samples
WindowValue(windowType, i, n) ==
    CASE windowType = "hanning" ->
           Mul(HANNING_COEFFICIENT, Sub(SCALE, Cos2Pi(i, n - 1)))
      [] windowType = "hamming" ->
           Sub(HAMMING_COEFFICIENT_A,
               Mul(HAMMING_COEFFICIENT_B, Cos2Pi(i, n - 1)))
      [] windowType = "blackman" ->
           Add(Sub(BLACKMAN_COEFFICIENT_A,
                   Mul(BLACKMAN_COEFFICIENT_B, Cos2Pi(i, n - 1))),
               Mul(BLACKMAN_COEFFICIENT_C, Cos2Pi(2 * i, n - 1)))
      [] OTHER -> RECTANGULAR_COEFFICIENT

applyWindow(samples, windowType) ==
    [i \in 1..Len(samples) |->
        Mul(samples[i], WindowValue(windowType, i - 1, Len(samples)))]

\* reverseBits(x, Math.log2(n)): the loop runs while i < log2(n)
RECURSIVE reverseBits(_, _)
reverseBits(x, bits) ==
    IF bits <= 0 THEN 0
    ELSE (x % 2) * (2^(bits - 1)) + reverseBits(x \div 2, bits - 1)

\* one butterfly of performFFT on the interleaved array cv
Butterfly(cv, size, start, i) ==
    LET halfSize == size \div 2
        cos      == Cos2Pi(i, size)
        sin      == -Sin2Pi(i, size)
        evenReal == At0(cv, (start + i) * 2)
        evenImag == At0(cv, (start + i) * 2 + 1)
        oddReal  == At0(cv, (start + i + halfSize) * 2)
        oddImag  == At0(cv, (start + i + halfSize) * 2 + 1)
        tempReal == Sub(Mul(cos, oddReal), Mul(sin, oddImag))
        tempImag == Add(Mul(cos, oddImag), Mul(sin, oddReal))
        c1 == Put0(cv, (start + i + halfSize) * 2, Sub(evenReal, tempReal))
        c2 == Put0(c1, (start + i + halfSize) * 2 + 1, Sub(evenImag, tempImag))
        c3 == Put0(c2, (start + i) * 2, Add(evenReal, tempReal))
    IN  Put0(c3, (start + i) * 2 + 1, Add(evenImag, tempImag))

\* the three nested loops of performFFT from position (size, start, i) on
RECURSIVE FFTLoop(_, _, _, _, _)
FFTLoop(cv, n, size, start, i) ==
    IF size > n THEN cv
    ELSE IF start >= n THEN FFTLoop(cv, n, size * 2, 0, 0)
    ELSE IF i >= size \div 2 THEN FFTLoop(cv, n, size, start + size, 0)
    ELSE Bind(Butterfly(cv, size, start, i),
              LAMBDA next : FFTLoop(next, n, size, start, i + 1))

\* the interleaved complex spectrum [re0, im0, re1, im1, ...]
performFFT(samples) ==
    LET n == Len(samples)
        permuted == [j \in 1..(2 * n) |->
                        IF j % 2 = 1
                        THEN At0(samples, reverseBits((j - 1) \div 2, CeilLog2(n)))
                        ELSE 0]
    IN  Bind(Fixed(permuted),
             LAMBDA cv : [complexValues |-> FFTLoop(cv, n, 2, 0, 0), size |-> n])

\* new Array(fftSize / 2) raises a RangeError unless fftSize / 2 is an integer
PowerSpectrumRaises(fftSize) == fftSize % 2 # 0

\* a variant of the loop bound of line 547: one power value per FFT bin
calculatePowerSpectrumFull(fftResult, fftSize) ==
    [i \in 1..fftSize |->
        LET real == At0(fftResult.complexValues, (i - 1) * 2)
            imag == At0(fftResult.complexValues, (i - 1) * 2 + 1)
        IN  IF IsNaN(real) \/ IsNaN(imag) THEN NaN
            ELSE real * real + imag * imag]

\* power values in units of 1/SCALE^2
calculatePowerSpectrum(fftResult, fftSize) ==
    [i \in 1..(fftSize \div 2) |->
        LET real == At0(fftResult.complexValues, (i - 1) * 2)
            imag == At0(fftResult.complexValues, (i - 1) * 2 + 1)
        IN  IF IsNaN(real) \/ IsNaN(imag) THEN NaN
            ELSE real * real + imag * imag]

\* power / (fftSize * fftSize) > MIN_POWER_VALUE; false for NaN
AboveMinPower(power, fftSize) ==
    /\ ~IsNaN(power)
    /\ AbovePowerOfTenth(power, SCALE * SCALE * fftSize * fftSize, MIN_POWER_DIGITS)

\* dB values in units of 1/DB_SCALE
convertToDBSpectrum(powerValues, fftSize) ==
    [i \in 1..Len(powerValues) |->
        IF AboveMinPower(powerValues[i], fftSize)
        THEN TenLog10(powerValues[i], SCALE * fftSize * fftSize * REFERENCE_LEVEL)
        ELSE MinDbDisplay]

\* a variant of lines 479-488: fftSize samples are copied whatever the length
\* of the sample array; a read past its end stores NaN
FrameSamplesUnclamped(samples, startSample, fftSize) ==
    [i \in 1..fftSize |->
        IF startSample + i <= Len(samples) THEN samples[startSample + i]
        ELSE NaN]

\* the fftSize samples of the frame starting at startSample, zero padded
FrameSamples(samples, startSample, fftSize) ==
    LET endSample == Min(startSample + fftSize, Len(samples))
        availableSamples == endSample - startSample
    IN  [i \in 1..fftSize |->
            IF i - 1 < availableSamples THEN samples[startSample + i] ELSE 0]

\* the window every frame is given (audio-processor.ts 491)
FrameWindowType == "hanning"

\* the dB spectrum of one frame
FrameDb(samples, startSample, fftSize) ==
    Bind(Fixed(FrameSamples(samples, startSample, fftSize)),
      LAMBDA frameSamples :
        Bind(Fixed(applyWindow(frameSamples, FrameWindowType)),
          LAMBDA windowedSamples :
            Bind(performFFT(windowedSamples),
              LAMBDA fftResult :
                Bind(Fixed(calculatePowerSpectrum(fftResult, fftSize)),
                  LAMBDA powerSpectrum :
                    Fixed(convertToDBSpectrum(powerSpectrum, fftSize))))))

\* startFrame of line 468
StartFrame(audio, startTime) ==
    RFloor(RMul(startTime, RInt(audio.sampleRate)))

\* a variant of line 472: the frame length is not subtracted
NumFramesWithoutWindow(audio, startTime, duration, fftSize, hopSize) ==
    LET actualDuration == RMin(duration, RSub(audio.duration, startTime))
        endFrame   == RFloor(RMul(RAdd(startTime, actualDuration),
                                  RInt(audio.sampleRate)))
    IN  ((endFrame - RFloor(RMul(startTime, RInt(audio.sampleRate))))
            \div hopSize) + 1

\* numFrames of line 472
NumFrames(audio, startTime, duration, fftSize, hopSize) ==
    LET actualDuration == RMin(duration, RSub(audio.duration, startTime))
        endFrame   == RFloor(RMul(RAdd(startTime, actualDuration),
                                  RInt(audio.sampleRate)))
    IN  ((endFrame - StartFrame(audio, startTime) - fftSize) \div hopSize) + 1

\* a variant of the loop of lines 477-511: the frames are pushed last first
FramesReversed(audio, startTime, startFrame, count, fftSize, hopSize) ==
    Fixed([frame \in 1..count |->
            [frequencyBins |->
                FrameDb(audio.samples, startFrame + (count - frame) * hopSize,
                        fftSize),
             timePosition  |->
                RAdd(startTime, Rat((count - frame) * hopSize, audio.sampleRate)),
             frameDuration |-> Rat(hopSize, audio.sampleRate)]])

\* the frames of the loop of lines 477-511
Frames(audio, startTime, startFrame, count, fftSize, hopSize) ==
    Fixed([frame \in 1..count |->
            [frequencyBins |->
                FrameDb(audio.samples, startFrame + (frame - 1) * hopSize,
                        fftSize),
             timePosition  |->
                RAdd(startTime, Rat((frame - 1) * hopSize, audio.sampleRate)),
             frameDuration |-> Rat(hopSize, audio.sampleRate)]])

\* a variant of the loop bound: frame <= numFrames
FrameCountInclusive(numFrames) == IF numFrames >= 0 THEN numFrames + 1 ELSE 0

\* the turns of the loop of line 477: frame = 0 while frame < numFrames
FrameCount(numFrames) == IF numFrames > 0 THEN numFrames ELSE 0

\* error is "RangeError" when the first frame raises in calculatePowerSpectrum
\* (nothing is returned then); windowed and transformed count the frames
\* handed to applyWindow and to performFFT
calculateSpectrogram(audio, startTime, duration, fftSize, hopSize) ==
    Bind(<<startTime, duration,
           NumFrames(audio, startTime, duration, fftSize, hopSize)>>,
      LAMBDA p :
        LET count  == FrameCount(p[3])
            raises == count > 0 /\ PowerSpectrumRaises(fftSize)
        IN  [error       |-> IF raises THEN "RangeError" ELSE "none",
             windowed    |-> IF raises THEN 1 ELSE count,
             transformed |-> IF raises THEN 1 ELSE count,
             frames      |->
                IF raises THEN << >>
                ELSE Frames(audio, p[1], StartFrame(audio, p[1]), count,
                            fftSize, hopSize),
             sampleRate  |-> audio.sampleRate,
             fftSize     |-> fftSize,
             hopSize     |-> hopSize,
             duration    |-> RMin(p[2], RSub(audio.duration, p[1])),
             numFrequencyBins    |-> Rat(fftSize, 2),
             frequencyResolution |-> Rat(audio.sampleRate, fftSize),
             timeResolution      |-> Rat(hopSize, audio.sampleRate)])

(***************************************************************************)
(* The global dB range (audio-processor.ts 361-392).                       *)
(***************************************************************************)
MathMin(a, b) == IF IsNaN(a) \/ IsNaN(b) THEN NaN ELSE Min(a, b)
MathMax(a, b) == IF IsNaN(a) \/ IsNaN(b) THEN NaN ELSE Max(a, b)

\* a variant of the comparison: db >= MIN_DB_DISPLAY
CountsForRangeInclusive(db) == db >= MinDbDisplay

\* the display floor a dB value must exceed to count (line 371)
CountsForRange(db) == db > MinDbDisplay

\* the inner loop over the dB values of one frame, from bin i on
RECURSIVE ScanBins(_, _, _)
ScanBins(bins, i, acc) ==
    IF i > Len(bins) THEN acc
    ELSE Bind(IF CountsForRange(bins[i])
              THEN [min |-> MathMin(acc.min, bins[i]),
                    max |-> MathMax(acc.max, bins[i])]
              ELSE acc,
              LAMBDA next : ScanBins(bins, i + 1, next))

\* the outer loop over the frames, from frame k on
RECURSIVE ScanFrames(_, _, _)
ScanFrames(frames, k, acc) ==
    IF k > Len(frames) THEN acc
    ELSE Bind(ScanBins(frames[k].frequencyBins, 1, acc),
              LAMBDA next : ScanFrames(frames, k + 1, next))

\* a variant of the fallback: the floor for both ends
FallbackMaxDbFloor == MinDbDisplay

\* the values returned when no dB value counted (lines 379-380)
FallbackMinDb == MinDbDisplay
FallbackMaxDb == MaxDbTheoretical

\* the full-duration matrix the range is taken from (line 362)
FullSpectrogram(audio) ==
    calculateSpectrogram(audio, RInt(0), audio.duration,
                         DEFAULT_FFT_SIZE, DEFAULT_HOP_SIZE)

calculateGlobalDbRange(audio) ==
    Bind(FullSpectrogram(audio).frames,
      LAMBDA frames :
        Bind(ScanFrames(frames, 1, [min |-> PosInfinity, max |-> NegInfinity]),
          LAMBDA scanned :
            LET globalMinDb == IF scanned.min = PosInfinity THEN FallbackMinDb
                               ELSE scanned.min
                globalMaxDb == IF scanned.max = NegInfinity THEN FallbackMaxDb
                               ELSE scanned.max
            IN  [minDb |-> globalMinDb,
                 maxDb |-> globalMaxDb,
                 dynamicRange |-> globalMaxDb - globalMinDb]))

(***************************************************************************)
(* Temporal resampling (audio-processor.ts 850-1073).                      *)
(***************************************************************************)
\* a dB value weighted between v0 (weight 1 - n/d) and v1 (weight n/d)
Lerp(v0, v1, n, d) ==
    IF IsNaN(v0) \/ IsNaN(v1) THEN NaN ELSE (v0 * (d - n) + v1 * n) \div d

\* The window bounds are Math.floor(i * step) with step = numFrames /
\* targetWidth, both operations rounded to double precision.  For numFrames
\* up to 20 the rounded product differs from the exact one across an integer
\* in two cases <<numFrames, targetWidth, i>>: 15 / 11 is rounded to
\* 1.3636363636363635 and 11 times that to 14.999999999999998, and
\* 13 * (15 / 13) likewise to 14.999999999999998.
StepRoundedBelow == {<<15, 11, 11>>, <<15, 13, 13>>}

\* Math.floor(i * step)
FloorOfSteps(i, numFrames, targetWidth) ==
    IF <<numFrames, targetWidth, i>> \in StepRoundedBelow
    THEN (i * numFrames) \div targetWidth - 1
    ELSE (i * numFrames) \div targetWidth

WindowStart(i, numFrames, targetWidth) ==
    FloorOfSteps(i, numFrames, targetWidth)
WindowEnd(i, numFrames, targetWidth) ==
    Min(FloorOfSteps(i + 1, numFrames, targetWidth), numFrames)

RECURSIVE SumBin(_, _, _, _)
SumBin(data, from, to, bin) ==
    IF from >= to THEN 0
    ELSE Add(data[from + 1][bin], SumBin(data, from + 1, to, bin))

RECURSIVE PeakBin(_, _, _, _)
PeakBin(data, from, to, bin) ==
    IF from >= to THEN NegInfinity
    ELSE MathMax(data[from + 1][bin], PeakBin(data, from + 1, to, bin))

\* startFrame, endFrame and numFramesInWindow of output column i
Window(i, numFrames, targetWidth) ==
    Bind(<<WindowStart(i, numFrames, targetWidth),
           WindowEnd(i, numFrames, targetWidth)>>,
         LAMBDA w : [startFrame |-> w[1], endFrame |-> w[2],
                     numFramesInWindow |-> w[2] - w[1]])

averageDownsample(data, targetWidth) ==
    LET numFrames == Len(data)
    IN  [col \in 1..targetWidth |->
            Bind(Window(col - 1, numFrames, targetWidth),
              LAMBDA w :
                IF w.numFramesInWindow = 0
                THEN data[Min(w.startFrame, numFrames - 1) + 1]
                ELSE [bin \in 1..Len(data[1]) |->
                        Bind(SumBin(data, w.startFrame, w.endFrame, bin),
                          LAMBDA sum :
                            IF IsNaN(sum) THEN NaN
                            ELSE sum \div w.numFramesInWindow)])]

peakPreservingDownsample(data, targetWidth) ==
    LET numFrames == Len(data)
    IN  [col \in 1..targetWidth |->
            Bind(Window(col - 1, numFrames, targetWidth),
              LAMBDA w :
                IF w.numFramesInWindow = 0
                THEN data[Min(w.startFrame, numFrames - 1) + 1]
                ELSE [bin \in 1..Len(data[1]) |->
                        PeakBin(data, w.startFrame, w.endFrame, bin)])]

\* the fractional source index (i / (targetWidth - 1)) * (numFrames - 1)
SourceIndex(i, numFrames, targetWidth) ==
    Rat(i * (numFrames - 1), targetWidth - 1)

\* frameIndexFloor, frameIndexCeil and the weight t of a source index
Neighbours(frameIndex, numFrames) ==
    Bind(<<frameIndex, RFloor(frameIndex)>>,
         LAMBDA p : [frameIndexFloor |-> p[2],
                     frameIndexCeil  |-> Min(p[2] + 1, numFrames - 1),
                     t |-> RSub(p[1], RInt(p[2]))])

linearUpsample(data, targetWidth) ==
    LET numFrames == Len(data)
    IN  [col \in 1..targetWidth |->
            Bind(Neighbours(IF targetWidth = 1 THEN RInt(0)
                            ELSE SourceIndex(col - 1, numFrames, targetWidth),
                            numFrames),
              LAMBDA c :
                [bin \in 1..Len(data[c.frameIndexFloor + 1]) |->
                    Lerp(data[c.frameIndexFloor + 1][bin],
                         data[c.frameIndexCeil + 1][bin], c.t.n, c.t.d)])]

\* (freqIdx / (numFreqBins - 1)) % 1 as a rational; 0/0 is NaN
FreqInterpFactor(freqIdx, numFreqBins) ==
    IF numFreqBins = 1 THEN [n |-> NaN, d |-> 1]
    ELSE IF freqIdx = numFreqBins - 1 THEN RInt(0)
    ELSE Rat(freqIdx, numFreqBins - 1)

bilinearUpsample(data, targetWidth) ==
    LET numFrames == Len(data)
        numFreqBins == Len(data[1])
    IN  [col \in 1..targetWidth |->
            Bind(Neighbours(SourceIndex(col - 1, numFrames, targetWidth),
                            numFrames),
              LAMBDA c :
                [bin \in 1..numFreqBins |->
                    LET freqIdx == bin - 1
                        frameFloor == data[c.frameIndexFloor + 1]
                        frameCeil  == data[c.frameIndexCeil + 1]
                        v00 == frameFloor[bin]
                        v10 == frameCeil[bin]
                        v01 == IF freqIdx < numFreqBins - 1
                               THEN frameFloor[bin + 1] ELSE v00
                        v11 == IF freqIdx < numFreqBins - 1
                               THEN frameCeil[bin + 1] ELSE v10
                        c0  == Lerp(v00, v10, c.t.n, c.t.d)
                        c1  == Lerp(v01, v11, c.t.n, c.t.d)
                    IN  Bind(FreqInterpFactor(freqIdx, numFreqBins),
                          LAMBDA f :
                            IF IsNaN(f.n) THEN NaN
                            ELSE Lerp(c0, c1, f.n, f.d))])]

\* OPTIONS.UPSAMPLE_STRATEGY and OPTIONS.DOWNSAMPLE_STRATEGY (lines 347-348)
UPSAMPLE_STRATEGY == "bilinear"
DOWNSAMPLE_STRATEGY == "peak"

selectUpsamplingStrategy(data, targetWidth) ==
    IF UPSAMPLE_STRATEGY = "linear" THEN linearUpsample(data, targetWidth)
    ELSE bilinearUpsample(data, targetWidth)

selectDownsampleStrategy(data, targetWidth) ==
    IF DOWNSAMPLE_STRATEGY = "peak"
    THEN peakPreservingDownsample(data, targetWidth)
    ELSE averageDownsample(data, targetWidth)

\* the columns of the strategies are fixed bin by bin
FixedColumns(columns) ==
    Fixed([col \in 1..Len(columns) |-> Fixed(columns[col])])

\* a variant of the shortcut of lines 1026-1029: only a single column is
\* returned as it is, an input as wide as the target is upsampled
resampleWithoutShortcut(data, targetWidth) ==
    IF Len(data) = 0 THEN << >>
    ELSE IF Len(data) = 1 /\ targetWidth = 1 THEN data
    ELSE IF Len(data) <= targetWidth
         THEN FixedColumns(selectUpsamplingStrategy(data, targetWidth))
         ELSE FixedColumns(selectDownsampleStrategy(data, targetWidth))

resampleSpectrogram(data, targetWidth) ==
    LET numFrames == Len(data)
    IN  IF numFrames = 0 THEN << >>
        ELSE IF numFrames = targetWidth THEN data
        ELSE IF numFrames < targetWidth
             THEN FixedColumns(selectUpsamplingStrategy(data, targetWidth))
             ELSE FixedColumns(selectDownsampleStrategy(data, targetWidth))

(***************************************************************************)
(* Frequency scales (audio-processor.ts 1078-1184).  Logarithms and        *)
(* exponentials are taken in base 2, in units of 1/1024; frequencies are   *)
(* kept in units of 1/64 Hz.                                               *)
(***************************************************************************)
NaNRat == [n |-> NaN, d |-> 1]
IsNaNRat(r) == r.n = NaN

\* 2^14 * 2^(1/2), 2^14 * 2^(1/4), ..., 2^14 * 2^(1/1024)
Exp2Table ==
    <<23170, 19484, 17867, 17109, 16743, 16562, 16473, 16428, 16406, 16395>>

\* 2^14 * 2^(fp / 1024) for fp in 0 .. 1023, bit by bit from bit j on
RECURSIVE Exp2Frac(_, _, _)
Exp2Frac(fp, j, m) ==
    IF j > 10 THEN m
    ELSE IF fp >= 2^(10 - j)
         THEN Exp2Frac(fp - 2^(10 - j), j + 1, (m * Exp2Table[j]) \div (2^14))
         ELSE Exp2Frac(fp, j + 1, m)

\* 2^(z / 1024) in units of 1/2^14
Exp2Fix(z) ==
    LET ip == z \div 1024
        m  == Exp2Frac(z % 1024, 1, 2^14)
    IN  IF ip >= 0 THEN m * (2^ip) ELSE m \div (2^(-ip))

\* Math.log10(num / den) in units of 1/1024
Log10Fix(num, den) == ((Log2Fix(num) - Log2Fix(den)) * 30103) \div 100000

\* Math.pow(10, x) for x in units of 1/1024, in units of 1/2^14
Pow10Fix(x) == Exp2Fix((x * 332193) \div 100000)

\* Math.atan(x), x in [0, 1] in units of 1/1024, in units of 1/1024 rad
AtanUnit(x) == (804 * x + (280 * x * (1024 - x)) \div 1024) \div 1024

\* Math.atan(r) for a rational r >= 0, in units of 1/1024 rad
AtanFix(r) ==
    IF r.n <= r.d THEN AtanUnit((r.n * 1024) \div r.d)
    ELSE 1608 - AtanUnit((r.d * 1024) \div r.n)

\* hz is a rational number of Hz; mel in units of 1/1024
hzToMel(hz) == 2595 * Log10Fix(700 * hz.d + hz.n, 700 * hz.d)

\* the result in units of 1/64 Hz
melToHz(mel) == (700 * (Pow10Fix(mel \div 2595) - 2^14)) \div 256

\* bark in units of 1/1024
hzToBark(hz) ==
    13 * AtanFix(RMul(Rat(76, 100000), hz))
    + (7 * AtanFix(RMul(RDiv(hz, RInt(7500)), RDiv(hz, RInt(7500))))) \div 2

\* the result in units of 1/64 Hz
barkToHz(bark) ==
    IF bark <= 0 THEN 0
    ELSE IF bark >= 26 * 1024 THEN 20000 * 64
    ELSE (1960 * (bark + 543) * 8) \div ((27453 - bark) \div 8)

\* erb in units of 1/1024
hzToErb(hz) == (214 * Log10Fix(229 * hz.d + hz.n, 229 * hz.d)) \div 10

\* the result in units of 1/64 Hz
erbToHz(erb) == (229 * (Pow10Fix((erb * 10) \div 214) - 2^14)) \div 256

FrequencyScales == {"linear", "log", "mel", "bark", "erb"}

\* a value of a scale weighted by normalizedY between lo and hi
ScaleAt(lo, hi, normalizedY) ==
    lo + ((hi - lo) * normalizedY.n) \div normalizedY.d

\* a frequency in units of 1/64 Hz as a ratio of sampleRate / 2
RatioOfNyquist(hz64, sampleRate) == Rat(2 * hz64, 64 * sampleRate)

\* (height - 1 - y) / (height - 1): 0 at the bottom row, 1 at the top row
NormalizedY(y, height) ==
    IF height = 1 THEN NaNRat ELSE Rat(height - 1 - y, height - 1)

\* a variant of the bounds branch: the log scale is applied even when a
\* frequency bound is given
FrequencyRatioScaleFirst(normalizedY, scale, sampleRate, minFrequency, maxFrequency) ==
    IF scale = "log"
    THEN Rat(Exp2Fix((-1024 * normalizedY.n) \div normalizedY.d), 2^14)
    ELSE IF minFrequency = Null /\ maxFrequency = Null THEN normalizedY
    ELSE LET minFreq == IF minFrequency = Null THEN RInt(0)
                        ELSE RInt(minFrequency)
             maxFreq == IF maxFrequency = Null THEN Rat(sampleRate, 2)
                        ELSE RInt(maxFrequency)
         IN  RDiv(RAdd(minFreq, RMul(normalizedY, RSub(maxFreq, minFreq))),
                  Rat(sampleRate, 2))

\* the frequency ratio before clamping, for normalizedY not NaN
FrequencyRatio(normalizedY, scale, sampleRate, minFrequency, maxFrequency) ==
    LET nyquist == Rat(sampleRate, 2)
    IN  IF minFrequency # Null \/ maxFrequency # Null
        THEN LET minFreq == IF minFrequency = Null \/ minFrequency = 0
                                \/ IsNaN(minFrequency)
                            THEN RInt(0) ELSE RInt(minFrequency)
                 maxFreq == IF maxFrequency = Null \/ maxFrequency = 0
                                \/ IsNaN(maxFrequency)
                            THEN nyquist ELSE RInt(maxFrequency)
                 freq == RAdd(minFreq, RMul(normalizedY, RSub(maxFreq, minFreq)))
             IN  RDiv(freq, nyquist)
        ELSE CASE scale = "log" ->
                    \* 10^(normalizedY * log10(0.5)) = 2^(-normalizedY)
                    Rat(Exp2Fix((-1024 * normalizedY.n) \div normalizedY.d), 2^14)
               [] scale = "mel" ->
                    RatioOfNyquist(
                        melToHz(ScaleAt(hzToMel(RInt(0)), hzToMel(nyquist),
                                        normalizedY)), sampleRate)
               [] scale = "bark" ->
                    RatioOfNyquist(
                        barkToHz(ScaleAt(hzToBark(RInt(0)), hzToBark(nyquist),
                                         normalizedY)), sampleRate)
               [] scale = "erb" ->
                    RatioOfNyquist(
                        erbToHz(ScaleAt(hzToErb(RInt(0)), hzToErb(nyquist),
                                        normalizedY)), sampleRate)
               [] OTHER -> normalizedY

\* Math.max(0, Math.min(1, ratio))
ClampRatio(ratio) ==
    IF RLess(RInt(1), ratio) THEN RInt(1)
    ELSE IF RLess(ratio, RInt(0)) THEN RInt(0)
    ELSE ratio

\* the bin index, or NaN
getFrequencyIndex(y, height, numFrequencies, scale, sampleRate, minFrequency, maxFrequency) ==
    LET normalizedY == NormalizedY(y, height)
    IN  IF IsNaNRat(normalizedY) THEN NaN
        ELSE RFloor(RMul(ClampRatio(FrequencyRatio(normalizedY, scale,
                                                   sampleRate, minFrequency,
                                                   maxFrequency)),
                         RInt(numFrequencies - 1)))

(***************************************************************************)
(* Rendering (audio-processor.ts 394-439 and 771-840).  The pixel loop is  *)
(* not unrolled into the state: an image is kept as the resampled columns  *)
(* and the parameters its pixels are computed from.                        *)
(***************************************************************************)
\* an argument that was not passed (endTime of generateSpectrogram)
Undefined == [n |-> Null, d |-> 1]

\* JavaScript truthiness of an optional time
Truthy(t) == t.n # Null /\ t.n # 0

\* a variant of the size check: only the width is compared
CanvasTooWide(width, height) == width > MAX_CANVAS_SIZE

\* the size check of lines 792-794
CanvasTooLarge(width, height) ==
    width > MAX_CANVAS_SIZE \/ height > MAX_CANVAS_SIZE

\* frameIndex of line 815
FrameIndex(x, numColumns, width) ==
    Min((x * numColumns) \div width, numColumns - 1)

\* line 816 yields undefined when frameIndex is no index of resampledData
FrameDefined(x, numColumns, width) ==
    LET frameIndex == FrameIndex(x, numColumns, width)
    IN  frameIndex >= 0 /\ frameIndex < numColumns

\* frame.length of line 820 raises a TypeError on an undefined frame
PixelLoopRaises(numColumns, width, height) ==
    height >= 1 /\ \E x \in 0..(width - 1) : ~FrameDefined(x, numColumns, width)

\* the image drawn from the resampled columns
Image(columns, outputPath, width, height, colorPreset, frequencyScale, mappingType, minFrequency, maxFrequency, sampleRate, minDb, maxDb) ==
    [path |-> outputPath, width |-> width, height |-> height,
     minDb |-> minDb, maxDb |-> maxDb, columns |-> columns,
     colorPreset |-> colorPreset, frequencyScale |-> frequencyScale,
     mappingType |-> mappingType, sampleRate |-> sampleRate,
     minFrequency |-> minFrequency, maxFrequency |-> maxFrequency]

\* spectrogramData is the value calculateSpectrogram returned
createSpectrogramImage(spectrogramData, outputPath, width, height, colorPreset, frequencyScale, mappingType, minFrequency, maxFrequency, sampleRate, minDbParam, maxDbParam) ==
    LET minDb == IF minDbParam # Null THEN minDbParam ELSE MinDbDisplay
        maxDb == IF maxDbParam # Null THEN maxDbParam ELSE MaxDbTheoretical
        image(columns) ==
            Image(columns, outputPath, width, height, colorPreset,
                  frequencyScale, mappingType, minFrequency, maxFrequency,
                  sampleRate, minDb, maxDb)
    IN  IF CanvasTooLarge(width, height)
        THEN [error |-> "Error", canvasCreated |-> FALSE, written |-> FALSE,
              image |-> image(<< >>)]
        ELSE Bind(Fixed([k \in 1..Len(spectrogramData.frames) |->
                            spectrogramData.frames[k].frequencyBins]),
               LAMBDA rawData :
                 Bind(resampleSpectrogram(rawData, width),
                   LAMBDA resampledData :
                     IF PixelLoopRaises(Len(resampledData), width, height)
                     THEN [error |-> "TypeError", canvasCreated |-> TRUE,
                           written |-> FALSE, image |-> image(resampledData)]
                     ELSE [error |-> "none", canvasCreated |-> TRUE,
                           written |-> TRUE, image |-> image(resampledData)]))

\* frame[freqIndex] of line 821: undefined (Null) when freqIndex is NaN or
\* no index of the frame
StoredDb(frame, freqIndex) ==
    IF IsNaN(freqIndex) \/ freqIndex < 0 \/ freqIndex >= Len(frame) THEN Null
    ELSE frame[freqIndex + 1]

\* frame[freqIndex] || minDb: undefined, NaN and 0 are falsy
PixelDb(frame, freqIndex, minDb) ==
    Bind(StoredDb(frame, freqIndex),
         LAMBDA stored : IF stored \in {Null, NaN, 0} THEN minDb ELSE stored)

\* a variant of line 824: (db - minDb) / dbRange without the comparison
NormalizedUnguarded(db, minDb, maxDb) ==
    IF IsNaN(db) \/ IsNaN(minDb) \/ IsNaN(maxDb) THEN NaNRat
    ELSE IF maxDb = minDb
         THEN IF db = minDb THEN NaNRat
              ELSE IF db > minDb THEN RInt(PosInfinity)
              ELSE RInt(NegInfinity)
         ELSE Rat(db - minDb, maxDb - minDb)

\* normalized of line 824: db > minDb ? (db - minDb) / dbRange : 0, with
\* dbRange = maxDb - minDb; a positive value over 0 is +Infinity
Normalized(db, minDb, maxDb) ==
    IF IsNaN(db) \/ IsNaN(minDb) \/ ~(db > minDb) THEN RInt(0)
    ELSE IF IsNaN(maxDb) THEN NaNRat
    ELSE IF maxDb = minDb THEN RInt(PosInfinity)
    ELSE Rat(db - minDb, maxDb - minDb)

\* clamped of line 825: Math.max(0, Math.min(1, normalized)); NaN stays NaN
Clamped(normalized) ==
    IF IsNaNRat(normalized) THEN NaNRat
    ELSE IF normalized.n = PosInfinity THEN RInt(1)
    ELSE IF normalized.n = NegInfinity THEN RInt(0)
    ELSE ClampRatio(normalized)

(***************************************************************************)
(* Intensity mapping and colour (lines 1192-1306).  An intensity is a      *)
(* rational in [0, 1] or NaN; a colour is a record of its r, g, b.         *)
(***************************************************************************)
\* applyMapping: the logarithm, the powers and the exponential in fixed
\* point (Log2Fix, Exp2Fix), the linear mapping exactly
applyMapping(normalized, mappingType) ==
    Bind(Clamped(normalized),
      LAMBDA clamped :
        IF IsNaNRat(clamped) THEN NaNRat
        ELSE CASE mappingType = "linear" -> clamped
               [] mappingType = "log" ->
                    Rat(Log10Fix(clamped.d + 9 * clamped.n, clamped.d),
                        Log10Fix(10, 1))
               [] mappingType = "power" ->
                    IF clamped.n = 0 THEN RInt(0)
                    ELSE Rat(Exp2Fix((21 * (Log2Fix(clamped.n)
                                            - Log2Fix(clamped.d))) \div 10),
                             2^14)
               [] mappingType = "sqrt" ->
                    IF clamped.n = 0 THEN RInt(0)
                    ELSE Rat(Exp2Fix((Log2Fix(clamped.n)
                                      - Log2Fix(clamped.d)) \div 2), 2^14)
               [] mappingType = "sigmoid" ->
                    Rat(2^14,
                        2^14 + Exp2Fix(((2 * clamped.d - 4 * clamped.n) * 1477)
                                       \div clamped.d))
               [] OTHER -> clamped)

\* the channels whose expression, evaluated in double precision, stays just
\* below the integer its exact value reaches, as <<preset, n, d, channel>>
\* for the intensity n/d: 0.33, 0.67 and 0.2 are no binary fractions.  The
\* table is complete for d a divisor of 20 or a power of two up to 1024.
ChannelRoundedBelow ==
    {<<"heat", 1, 1, "b">>, <<"heat", 7, 20, "g">>, <<"heat", 9, 20, "g">>,
     <<"inferno", 1, 1, "g">>, <<"inferno", 1, 1, "b">>,
     <<"inferno", 3, 10, "r">>, <<"inferno", 7, 10, "g">>,
     <<"inferno", 3, 20, "b">>, <<"inferno", 7, 20, "r">>,
     <<"inferno", 7, 20, "b">>, <<"inferno", 11, 20, "b">>}

\* Math.floor of the channel expression whose exact value is exact
ChannelFloor(preset, t, channel, exact) ==
    IF <<preset, t.n, t.d, channel>> \in ChannelRoundedBelow
    THEN RFloor(exact) - 1
    ELSE RFloor(exact)

\* (t - from / unit) / (span / unit) * scale
Ramp(t, from, span, unit, scale) ==
    Rat((unit * t.n - from * t.d) * scale, span * t.d)

\* heatMap (lines 1253-1270); every comparison with NaN is false
heatMap(normalized) ==
    IF IsNaNRat(normalized) THEN [r |-> 255, g |-> 255, b |-> NaN]
    ELSE Bind(ClampRatio(normalized),
           LAMBDA t :
             IF RLess(t, Rat(33, 100))
             THEN [r |-> ChannelFloor("heat", t, "r",
                                      Ramp(t, 0, 33, 100, 255)),
                   g |-> 0, b |-> 0]
             ELSE IF RLess(t, Rat(67, 100))
             THEN [r |-> 255,
                   g |-> ChannelFloor("heat", t, "g",
                                      Ramp(t, 33, 34, 100, 255)),
                   b |-> 0]
             ELSE [r |-> 255, g |-> 255,
                   b |-> ChannelFloor("heat", t, "b",
                                      Ramp(t, 67, 33, 100, 255))])

\* infernoMap (lines 1281-1306)
infernoMap(normalized) ==
    IF IsNaNRat(normalized) THEN [r |-> 255, g |-> NaN, b |-> NaN]
    ELSE Bind(ClampRatio(normalized),
           LAMBDA t :
             LET floor(channel, exact) ==
                     ChannelFloor("inferno", t, channel, exact)
                 factor(k, scale) == Ramp(t, k, 1, 5, scale)
             IN  IF RLess(t, Rat(1, 5))
                 THEN [r |-> floor("r", factor(0, 50)), g |-> 0,
                       b |-> floor("b", factor(0, 100))]
                 ELSE IF RLess(t, Rat(2, 5))
                 THEN [r |-> floor("r", RAdd(RInt(50), factor(1, 100))),
                       g |-> 0,
                       b |-> floor("b", RAdd(RInt(100), factor(1, 100)))]
                 ELSE IF RLess(t, Rat(3, 5))
                 THEN [r |-> floor("r", RAdd(RInt(150), factor(2, 105))),
                       g |-> 0,
                       b |-> floor("b", RSub(RInt(200), factor(2, 200)))]
                 ELSE IF RLess(t, Rat(4, 5))
                 THEN [r |-> 255, g |-> floor("g", factor(3, 128)), b |-> 0]
                 ELSE [r |-> 255,
                       g |-> floor("g", RAdd(RInt(128), factor(4, 127))),
                       b |-> floor("b", factor(4, 255))])

\* Math.floor(normalized * 255) of lines 1223, 1227 and 1237
Intensity(normalized) ==
    IF IsNaNRat(normalized) THEN NaN ELSE RFloor(RMul(normalized, RInt(255)))

\* a variant of getColor whose gray levels are scaled by 256
getColorScaled256(normalized, colorPreset) ==
    CASE colorPreset = "heat" -> heatMap(normalized)
      [] colorPreset = "inferno" -> infernoMap(normalized)
      [] OTHER ->
           Bind(IF IsNaNRat(normalized) THEN NaN
                ELSE RFloor(RMul(normalized, RInt(256))),
             LAMBDA intensity :
               Bind(IF IsNaN(intensity) THEN NaN
                    ELSE IF colorPreset = "gray" THEN 255 - intensity
                    ELSE intensity,
                 LAMBDA level : [r |-> level, g |-> level, b |-> level]))

\* getColor (lines 1220-1240): an unknown preset is drawn as invgray
getColor(normalized, colorPreset) ==
    CASE colorPreset = "heat" -> heatMap(normalized)
      [] colorPreset = "inferno" -> infernoMap(normalized)
      [] OTHER ->
           Bind(Intensity(normalized),
             LAMBDA intensity :
               Bind(IF IsNaN(intensity) THEN NaN
                    ELSE IF colorPreset = "gray" THEN 255 - intensity
                    ELSE intensity,
                 LAMBDA level : [r |-> level, g |-> level, b |-> level]))

\* the values of the loop body of lines 815-831 for the pixel (x, y) of an
\* image
Pixel(image, x, y) ==
    Bind(image.columns[FrameIndex(x, Len(image.columns), image.width) + 1],
      LAMBDA frame :
        Bind(getFrequencyIndex(y, image.height, Len(frame),
                               image.frequencyScale, image.sampleRate,
                               image.minFrequency, image.maxFrequency),
          LAMBDA freqIndex :
            Bind(PixelDb(frame, freqIndex, image.minDb),
              LAMBDA db :
                Bind(Normalized(db, image.minDb, image.maxDb),
                  LAMBDA normalized :
                    Bind(applyMapping(Clamped(normalized),
                                      image.mappingType),
                      LAMBDA mapped :
                        [freqIndex  |-> freqIndex,
                         stored     |-> StoredDb(frame, freqIndex),
                         db         |-> db,
                         normalized |-> normalized,
                         clamped    |-> Clamped(normalized),
                         mapped     |-> mapped,
                         color      |-> getColor(mapped,
                                                 image.colorPreset)])))))

\* the pixels of a drawn image, by x and y
Pixels(image) ==
    [x \in 0..(image.width - 1) |->
        [y \in 0..(image.height - 1) |-> Pixel(image, x, y)]]

\* the fillRect calls of lines 833-834 in the order of the loops of lines
\* 814 and 818: x outside, y inside, each a rectangle of 1 by 1 in the colour
\* of its pixel
Fills(image, pixels) ==
    [k \in 1..(image.width * image.height) |->
        Bind(<<(k - 1) \div image.height, (k - 1) % image.height>>,
          LAMBDA at : [x |-> at[1], y |-> at[2], width |-> 1, height |-> 1,
                       fillStyle |-> pixels[at[1]][at[2]].color])]

\* the duration handed to calculateSpectrogram (lines 411-412)
RequestedDuration(audio, startTime, endTime) ==
    IF Truthy(endTime) THEN RSub(endTime, startTime) ELSE audio.duration

ActualDuration(audio, startTime, endTime) ==
    RMin(RequestedDuration(audio, startTime, endTime),
         RSub(audio.duration, startTime))

generateSpectrogram(audio, outputPath, width, height, colorPreset, frequencyScale, mappingType, minFrequency, maxFrequency, minDbParam, maxDbParam, fftSize, hopSize, startTime, endTime) ==
    Bind(calculateSpectrogram(audio, startTime,
                              ActualDuration(audio, startTime, endTime),
                              fftSize, hopSize),
      LAMBDA spectrogramData :
        IF spectrogramData.error # "none"
        THEN [error |-> spectrogramData.error,
              spectrogramData |-> spectrogramData,
              canvasCreated |-> FALSE, written |-> FALSE, image |-> << >>]
        ELSE Bind(createSpectrogramImage(spectrogramData, outputPath, width,
                                         height, colorPreset, frequencyScale,
                                         mappingType, minFrequency,
                                         maxFrequency, audio.sampleRate,
                                         minDbParam, maxDbParam),
               LAMBDA drawn :
                 [error |-> drawn.error, spectrogramData |-> spectrogramData,
                  canvasCreated |-> drawn.canvasCreated,
                  written |-> drawn.written, image |-> drawn.image]))

\* a variant of lines 482-491: the first frame is windowed in the sample
\* array itself
AudioWindowedInPlace(audio) ==
    [audio EXCEPT !.samples =
        Bind(Fixed(applyWindow(SubSeq(audio.samples, 1, DEFAULT_FFT_SIZE),
                               FrameWindowType)),
          LAMBDA windowed :
            [i \in 1..Len(audio.samples) |->
                IF i <= DEFAULT_FFT_SIZE THEN windowed[i]
                ELSE audio.samples[i]])]

\* audioData after a call of calculateSpectrogram, and so of
\* generateSpectrogram and of calculateGlobalDbRange: the samples of a frame
\* are copied to frameSamples, a new array (lines 482-488), applyWindow and
\* performFFT return new arrays, and no statement assigns to audioData or
\* to an element of audioData.samples; the generator has no fields
AudioAfter(audio) == audio

(***************************************************************************)
(* Stitching (image-stitcher.ts 12-77).  A file is a record with its path, *)
(* width and height; a path is a record [kind, index].                     *)
(***************************************************************************)
Path(kind, index) == [kind |-> kind, index |-> index]

\* existsSync: the position of the last file written under path, 0 if none
RECURSIVE FileIndex(_, _, _)
FileIndex(written, path, k) ==
    IF k = 0 THEN 0
    ELSE IF written[k].path = path THEN k
    ELSE FileIndex(written, path, k - 1)

ExistsSync(written, path) == FileIndex(written, path, Len(written)) > 0
ReadFile(written, path) == written[FileIndex(written, path, Len(written))]

\* a variant of the sum: every part counts as MAX_WIDTH pixels wide
SumWidthsAtMaxWidth(written, i) == i * MAX_WIDTH

\* currentX before part i: the widths of the parts 1 .. i - 1
RECURSIVE SumWidths(_, _)
SumWidths(written, i) ==
    IF i = 0 THEN 0
    ELSE SumWidths(written, i - 1) + ReadFile(written, Path("part", i)).width

stitchParts(written, numParts, outputPath, height) ==
    IF numParts = 0
       \/ \E i \in 1..numParts : ~ExistsSync(written, Path("part", i))
    THEN [error |-> "Error", image |-> << >>]
    ELSE LET firstImage == ReadFile(written, Path("part", 1))
             imageHeight == IF firstImage.height # 0 THEN firstImage.height
                            ELSE height
         IN  [error |-> "none",
              image |->
                [path |-> outputPath,
                 width |-> SumWidths(written, numParts),
                 height |-> imageHeight,
                 operations |->
                    [i \in 1..numParts |->
                        [input |-> Path("part", i), top |-> 0,
                         left |-> SumWidths(written, i - 1)]]]]

(***************************************************************************)
(* Inputs.                                                                 *)
(***************************************************************************)
MaxNonZero == 2

SampleRates == {2}
Amplitudes == {-SCALE, 0, SCALE}

\* the sample arrays of a length with at most maxNonZero samples off zero
SampleArrays(len, amplitudes, maxNonZero) ==
    {s \in [1..len -> amplitudes] :
        Cardinality({i \in 1..len : s[i] # 0}) <= maxNonZero}

AudioOf(samples, sampleRate) ==
    [samples |-> samples, sampleRate |-> sampleRate,
     duration |-> Rat(Len(samples), sampleRate)]

AudioSet(lengths, amplitudes, maxNonZero) ==
    {AudioOf(s, r) :
        s \in UNION {SampleArrays(len, amplitudes, maxNonZero) : len \in lengths},
        r \in SampleRates}

ColorPresets == {"gray", "invgray", "heat", "inferno"}
MappingTypes == {"linear", "log", "power", "sqrt", "sigmoid"}

NoRange == [minDb |-> Null, maxDb |-> Null, dynamicRange |-> Null]
NoArgs  == [op |-> "none"]
Pending == [op |-> "pending"]

(***************************************************************************)
(* The command-line action (index.ts 33-209).                              *)
(***************************************************************************)
RunLengths == {8, 10, 12}
RunAmplitudes == {0, SCALE}

RunOptions ==
    [height : {2},
     pixelsPerSecond : {Rat(1, 2), RInt(1)},
     fftSize : {DEFAULT_FFT_SIZE},
     hopSize : {1, DEFAULT_HOP_SIZE},
     minDb : {Null, -60 * DB_SCALE},
     maxDb : {Null},
     window : {"hanning", "blackman", "bogus"},
     color : {"inferno"},
     scale : {"linear"},
     mapping : {"linear"},
     minFrequency : {Null},
     maxFrequency : {Null}]

\* lines 60-82
OptionsValid(o) ==
    /\ o.window \in WindowTypes
    /\ o.color \in ColorPresets
    /\ o.scale \in FrequencyScales
    /\ o.mapping \in MappingTypes

\* line 112
TotalWidth(audio, o) == RCeil(RMul(audio.duration, o.pixelsPerSecond))
\* line 116
NumImages(audio, o) == RCeil(Rat(TotalWidth(audio, o), MAX_WIDTH))
\* lines 144-147, for the loop counter i
PartStartTime(o, i) == RDiv(RInt(i * MAX_WIDTH), o.pixelsPerSecond)
PartEndTime(audio, o, i) ==
    RMin(RDiv(RInt((i + 1) * MAX_WIDTH), o.pixelsPerSecond), audio.duration)
\* The times and their difference are rounded to double precision.  For
\* the parts <<pixelsPerSecond.n, pixelsPerSecond.d, i>> listed, the product
\* timeRange * pixelsPerSecond comes out just above its exact value, so that
\* an exact integer k becomes k + 0.0000000000000004 (MAX_WIDTH 2, 3 pixels
\* per second, part 4: (10/3 - 8/3) * 3 = 2.0000000000000004).  The table is
\* complete for 1/2, 1 and 3 pixels per second and durations k/2 up to 12.
PartRangeRoundedAbove ==
    {<<3, 1, 4>>, <<3, 1, 6>>, <<3, 1, 8>>, <<3, 1, 9>>, <<3, 1, 11>>,
     <<3, 1, 13>>, <<3, 1, 16>>}
PartWidthActual(audio, o, i) ==
    Bind(RMul(RSub(PartEndTime(audio, o, i), PartStartTime(o, i)),
              o.pixelsPerSecond),
      LAMBDA exact :
        IF exact.d = 1
           /\ <<o.pixelsPerSecond.n, o.pixelsPerSecond.d, i>>
                  \in PartRangeRoundedAbove
        THEN exact.n + 1
        ELSE RCeil(exact))

\* a variant of line 122: the display floor instead of the computed minimum
GlobalMinDbFloor(range) == MinDbDisplay

\* lines 122-123
GlobalMinDb(range) == range.minDb
GlobalMaxDb(range) == range.maxDb

\* the dB matrix of a spectrogram: one row of bins per frame
Matrix(spectrogramData) ==
    [k \in 1..Len(spectrogramData.frames) |->
        spectrogramData.frames[k].frequencyBins]

\* the record of one call of generateSpectrogram and of its outcome r
RenderCall(outputPath, width, height, minDbParam, maxDbParam, fftSize, hopSize, startTime, endTime, r) ==
    [op |-> "generateSpectrogram", outputPath |-> outputPath,
     width |-> width, height |-> height,
     minDbParam |-> minDbParam, maxDbParam |-> maxDbParam,
     fftSize |-> fftSize, hopSize |-> hopSize,
     startTime |-> startTime, endTime |-> endTime,
     error |-> r.error, windowed |-> r.spectrogramData.windowed,
     matrix |-> Matrix(r.spectrogramData)]

\* a variant of Render that goes on at pc next after a raise as well
RenderUncaught(outputPath, width, minDbParam, maxDbParam, startTime, endTime, next) ==
    \E r \in {generateSpectrogram(audioData, outputPath, width, options.height,
                                  options.color, options.scale, options.mapping,
                                  options.minFrequency, options.maxFrequency,
                                  minDbParam, maxDbParam,
                                  options.fftSize, options.hopSize,
                                  startTime, endTime)} :
        /\ calls' = Append(calls,
                           RenderCall(outputPath, width, options.height,
                                      minDbParam, maxDbParam,
                                      options.fftSize, options.hopSize,
                                      startTime, endTime, r))
        /\ files' = IF r.written THEN Append(files, r.image) ELSE files
        /\ pc' = next
        /\ audioData' = audioData

\* one call of generateSpectrogram from the action: the call is recorded; a
\* written image goes to the files and the action goes on at pc next, a raise
\* is caught at line 205 and ends the process with exit code 1
Render(outputPath, width, minDbParam, maxDbParam, startTime, endTime, next) ==
    \E r \in {generateSpectrogram(audioData, outputPath, width, options.height,
                                  options.color, options.scale, options.mapping,
                                  options.minFrequency, options.maxFrequency,
                                  minDbParam, maxDbParam,
                                  options.fftSize, options.hopSize,
                                  startTime, endTime)} :
        /\ calls' = Append(calls,
                           RenderCall(outputPath, width, options.height,
                                      minDbParam, maxDbParam,
                                      options.fftSize, options.hopSize,
                                      startTime, endTime, r))
        /\ files' = IF r.written THEN Append(files, r.image) ELSE files
        /\ pc' = IF r.error = "none" THEN next ELSE "exit1"
        /\ audioData' = AudioAfter(audioData)

\* lines 53-85: the options are parsed and the four names are validated
Validate ==
    /\ pc = "start"
    /\ pc' = IF OptionsValid(options) THEN "loaded" ELSE "exit1"
    /\ UNCHANGED <<audioData, options, partIndex, globalDbRange, calls, files,
                   args, result>>

\* lines 99-119: the audio is decoded and the flow is chosen by the width
Dispatch ==
    /\ pc = "loaded"
    /\ pc' = IF TotalWidth(audioData, options) > MAX_WIDTH THEN "range"
             ELSE "single"
    /\ UNCHANGED <<audioData, options, partIndex, globalDbRange, calls, files,
                   args, result>>

\* lines 121-123
GlobalRange ==
    /\ pc = "range"
    /\ globalDbRange' = calculateGlobalDbRange(audioData)
    /\ calls' = Append(calls, [op |-> "calculateGlobalDbRange",
                               fftSize |-> DEFAULT_FFT_SIZE,
                               hopSize |-> DEFAULT_HOP_SIZE,
                               returned |-> globalDbRange'])
    /\ pc' = "overview"
    /\ audioData' = AudioAfter(audioData)
    /\ UNCHANGED <<options, partIndex, files, args, result>>

\* lines 127-141
Overview ==
    /\ pc = "overview"
    /\ Render(Path("overview", 0), MAX_WIDTH,
              GlobalMinDb(globalDbRange), GlobalMaxDb(globalDbRange),
              RInt(0), Undefined, "parts")
    /\ partIndex' = 0
    /\ UNCHANGED <<options, globalDbRange, args, result>>

\* lines 143-169: one turn of the part loop
Part ==
    /\ pc = "parts"
    /\ partIndex < NumImages(audioData, options)
    /\ Render(Path("part", partIndex + 1),
              PartWidthActual(audioData, options, partIndex),
              GlobalMinDb(globalDbRange), GlobalMaxDb(globalDbRange),
              PartStartTime(options, partIndex),
              PartEndTime(audioData, options, partIndex), "parts")
    /\ partIndex' = partIndex + 1
    /\ UNCHANGED <<options, globalDbRange, args, result>>

\* lines 171-181
Stitch ==
    /\ pc = "parts"
    /\ partIndex >= NumImages(audioData, options)
    /\ LET r == stitchParts(files, NumImages(audioData, options),
                            Path("stitched", 0), options.height)
       IN  /\ calls' = Append(calls, [op |-> "stitchParts",
                                      numParts |-> NumImages(audioData, options),
                                      error |-> r.error])
           /\ files' = IF r.error = "none" THEN Append(files, r.image)
                       ELSE files
           /\ pc' = IF r.error = "none" THEN "done" ELSE "exit1"
    /\ UNCHANGED <<audioData, options, partIndex, globalDbRange, args, result>>

\* lines 184-199
Single ==
    /\ pc = "single"
    /\ Render(Path("single", 0), TotalWidth(audioData, options),
              options.minDb, options.maxDb, RInt(0), Undefined, "done")
    /\ UNCHANGED <<options, partIndex, globalDbRange, args, result>>

Init ==
    /\ audioData \in AudioSet(RunLengths, RunAmplitudes, MaxNonZero)
    /\ options \in RunOptions
    /\ pc = "start"
    /\ partIndex = 0
    /\ globalDbRange = NoRange
    /\ calls = << >>
    /\ files = << >>
    /\ args = NoArgs
    /\ result = Pending

Next ==
    \/ Validate
    \/ Dispatch
    \/ GlobalRange
    \/ Overview
    \/ Part
    \/ Stitch
    \/ Single

Spec == Init /\ [][Next]_vars

(***************************************************************************)
(* One call of generateSpectrogram with arguments of its whole domain.     *)
(***************************************************************************)
RenderLengths == {2, 4, 6}
RenderNonZero == 1
FftSizes == {2, 3, 4, 6}
HopSizes == {1, 2}
SmallSizes == {1, 2, 3} \X {1, 2}
BoundarySizes ==
    {MAX_CANVAS_SIZE, MAX_CANVAS_SIZE + 1} \X {MAX_CANVAS_SIZE, MAX_CANVAS_SIZE + 1}
TimeRanges == {<<RInt(0), Undefined>>, <<RInt(1), RInt(2)>>}

RenderArguments(size, fftSize, hopSize, range) ==
    [op |-> "generateSpectrogram", width |-> size[1], height |-> size[2],
     fftSize |-> fftSize, hopSize |-> hopSize,
     startTime |-> range[1], endTime |-> range[2]]

\* the boundary sizes are drawn with the default analysis parameters only
RenderArgs ==
    {RenderArguments(size, fftSize, hopSize, range) :
        size \in SmallSizes, fftSize \in FftSizes, hopSize \in HopSizes,
        range \in TimeRanges}
    \cup {RenderArguments(size, DEFAULT_FFT_SIZE, DEFAULT_HOP_SIZE,
                          <<RInt(0), Undefined>>) : size \in BoundarySizes}

InitRender ==
    /\ audioData \in AudioSet(RenderLengths, RunAmplitudes, RenderNonZero)
    /\ options = NoArgs
    /\ pc = "call"
    /\ partIndex = 0
    /\ globalDbRange = NoRange
    /\ calls = << >>
    /\ files = << >>
    /\ args = NoArgs
    /\ result = Pending

\* lines 394-439
GenerateSpectrogram ==
    /\ pc = "call"
    /\ \E a \in RenderArgs :
        \E r \in {generateSpectrogram(audioData, Path("out", 0), a.width,
                                      a.height, "inferno", "linear", "linear",
                                      Null, Null, Null, Null, a.fftSize,
                                      a.hopSize, a.startTime, a.endTime)} :
            /\ args' = a
            /\ result' = r
            /\ calls' = Append(calls,
                               RenderCall(Path("out", 0), a.width, a.height,
                                          Null, Null, a.fftSize, a.hopSize,
                                          a.startTime, a.endTime, r))
            /\ files' = IF r.written THEN Append(files, r.image) ELSE files
    /\ pc' = "returned"
    /\ audioData' = AudioAfter(audioData)
    /\ UNCHANGED <<options, partIndex, globalDbRange>>

NextRender == GenerateSpectrogram

SpecRender == InitRender /\ [][NextRender]_vars

(***************************************************************************)
(* One call of calculateGlobalDbRange.                                     *)
(***************************************************************************)
RangeLengths == {2, 4, 6, 8}

InitRange ==
    /\ audioData \in AudioSet(RangeLengths, Amplitudes, MaxNonZero)
    /\ options = NoArgs
    /\ pc = "call"
    /\ partIndex = 0
    /\ globalDbRange = NoRange
    /\ calls = << >>
    /\ files = << >>
    /\ args = NoArgs
    /\ result = Pending

\* lines 361-392
CalculateGlobalDbRange ==
    /\ pc = "call"
    /\ result' = calculateGlobalDbRange(audioData)
    /\ globalDbRange' = result'
    /\ calls' = Append(calls, [op |-> "calculateGlobalDbRange",
                               fftSize |-> DEFAULT_FFT_SIZE,
                               hopSize |-> DEFAULT_HOP_SIZE,
                               returned |-> result'])
    /\ pc' = "returned"
    /\ audioData' = AudioAfter(audioData)
    /\ UNCHANGED <<options, partIndex, files, args>>

NextRange == CalculateGlobalDbRange

SpecRange == InitRange /\ [][NextRange]_vars

(***************************************************************************)
(* The row loop of one image column (lines 818-820): getFrequencyIndex for *)
(* y = 0, 1, ... height - 1; result is the sequence of the indices so far. *)
(***************************************************************************)
ScanHeights == {1, 2, 3, 5}
ScanBinCounts == {1, 2, 4, 8}
ScanSampleRates == {8000, 44100}
ScanMinFrequencies == {Null, 0, 1000}
ScanMaxFrequencies == {Null, 2000, 30000}

ScanArgs ==
    [op : {"getFrequencyIndex"}, height : ScanHeights,
     numFrequencies : ScanBinCounts, scale : FrequencyScales,
     sampleRate : ScanSampleRates,
     minFrequency : ScanMinFrequencies, maxFrequency : ScanMaxFrequencies]

InitFreq ==
    /\ args \in ScanArgs
    /\ result = << >>
    /\ audioData = NoArgs
    /\ options = NoArgs
    /\ pc = "rows"
    /\ partIndex = 0
    /\ globalDbRange = NoRange
    /\ calls = << >>
    /\ files = << >>

ScanRow ==
    /\ pc = "rows"
    /\ Len(result) < args.height
    /\ result' = Append(result,
                        getFrequencyIndex(Len(result), args.height,
                                          args.numFrequencies, args.scale,
                                          args.sampleRate, args.minFrequency,
                                          args.maxFrequency))
    /\ UNCHANGED <<audioData, options, pc, partIndex, globalDbRange, calls,
                   files, args>>

NextFreq == ScanRow

SpecFreq == InitFreq /\ [][NextFreq]_vars

(***************************************************************************)
(* One call of resampleSpectrogram on a dB matrix (lines 1019-1048).       *)
(***************************************************************************)
\* <<number of frames, number of bins>> of the matrices drawn
ResampleShapes ==
    {<<0, 0>>, <<1, 1>>, <<2, 1>>, <<3, 1>>, <<4, 1>>, <<5, 1>>,
     <<1, 2>>, <<2, 2>>, <<3, 2>>, <<1, 3>>, <<2, 3>>, <<3, 3>>}
ResampleValues == {-80 * DB_SCALE, -20 * DB_SCALE}
ResampleWidths == {1, 2, 3, 4}

ResampleMatrices ==
    UNION {[1..shape[1] -> [1..shape[2] -> ResampleValues]] :
              shape \in ResampleShapes}

\* matrices of fifteen frames of one bin: one frame above the others, or none
LongWidths == {11, 13}
LongMatrices ==
    {[k \in 1..15 |->
        <<IF k = peak THEN -20 * DB_SCALE ELSE -80 * DB_SCALE>>] :
            peak \in 0..15}

ResampleArgs ==
    [op : {"resampleSpectrogram"}, data : ResampleMatrices,
     targetWidth : ResampleWidths]
    \cup [op : {"resampleSpectrogram"}, data : LongMatrices,
          targetWidth : LongWidths]

InitResample ==
    /\ args \in ResampleArgs
    /\ result = Pending
    /\ audioData = NoArgs
    /\ options = NoArgs
    /\ pc = "call"
    /\ partIndex = 0
    /\ globalDbRange = NoRange
    /\ calls = << >>
    /\ files = << >>

ResampleSpectrogram ==
    /\ pc = "call"
    /\ result' = [op |-> "resampleSpectrogram",
                  resampled |-> resampleSpectrogram(args.data, args.targetWidth)]
    /\ pc' = "returned"
    /\ UNCHANGED <<audioData, options, partIndex, globalDbRange, calls, files,
                   args>>

NextResample == ResampleSpectrogram

SpecResample == InitResample /\ [][NextResample]_vars

(***************************************************************************)
(* One call of calculateSpectrogram (lines 458-528).  The duration of the  *)
(* audio is the one the decoder reports (lines 115, 133): it need not be   *)
(* the length of the sample array divided by the sample rate.              *)
(***************************************************************************)
SegmentLengths == {4, 6}
SegmentAmplitudes == {SCALE \div 2, SCALE}
\* the reported duration, in samples more than the sample array holds
SegmentExcess == {-1, 0, 3}
SegmentFftSizes == {2, 3, 4, 6}
SegmentHopSizes == {1, 2, 3}
SegmentStartTimes == {RInt(0), Rat(1, 2), RInt(1), RInt(4)}
SegmentDurations == {RInt(1), Rat(3, 2), RInt(5)}

\* sample arrays without a zero, at most one sample below full scale
SegmentSamples ==
    UNION {{s \in [1..len -> SegmentAmplitudes] :
               Cardinality({i \in 1..len : s[i] # SCALE}) <= 1} :
           len \in SegmentLengths}

SegmentAudio ==
    {[samples |-> s, sampleRate |-> r, duration |-> Rat(Len(s) + e, r)] :
        s \in SegmentSamples, r \in SampleRates, e \in SegmentExcess}

SegmentArgs ==
    [op : {"calculateSpectrogram"}, startTime : SegmentStartTimes,
     duration : SegmentDurations, fftSize : SegmentFftSizes,
     hopSize : SegmentHopSizes]

\* the buffers handed to applyWindow at line 491, in the order of the calls
FrameBuffers(audio, startTime, windowed, fftSize, hopSize) ==
    [k \in 1..windowed |->
        FrameSamples(audio.samples,
                     StartFrame(audio, startTime) + (k - 1) * hopSize, fftSize)]

InitSegment ==
    /\ audioData \in SegmentAudio
    /\ args \in SegmentArgs
    /\ result = Pending
    /\ options = NoArgs
    /\ pc = "call"
    /\ partIndex = 0
    /\ globalDbRange = NoRange
    /\ calls = << >>
    /\ files = << >>

CalculateSpectrogram ==
    /\ pc = "call"
    /\ \E r \in {calculateSpectrogram(audioData, args.startTime, args.duration,
                                       args.fftSize, args.hopSize)} :
          result' = [op |-> "calculateSpectrogram", spectrogramData |-> r,
                     frameBuffers |->
                        FrameBuffers(audioData, args.startTime, r.windowed,
                                     args.fftSize, args.hopSize)]
    /\ pc' = "returned"
    /\ UNCHANGED <<audioData, options, partIndex, globalDbRange, calls, files,
                   args>>

NextSegment == CalculateSpectrogram

SpecSegment == InitSegment /\ [][NextSegment]_vars

(***************************************************************************)
(* One call of createSpectrogramImage on a dB matrix of at least one frame *)
(* (lines 771-840), with the pixel loop unrolled.                          *)
(***************************************************************************)
RasterShapes == {<<1, 2>>, <<2, 2>>}
RasterValues == {0, -30 * DB_SCALE, MinDbDisplay}
RasterSizes == {1, 2, 3} \X {1, 2}
RasterMinDb == {Null, -60 * DB_SCALE}
RasterMaxDb == {Null, -60 * DB_SCALE, -80 * DB_SCALE}

RasterMatrices ==
    UNION {[1..shape[1] -> [1..shape[2] -> RasterValues]] :
              shape \in RasterShapes}

RasterArgs ==
    [op : {"createSpectrogramImage"}, data : RasterMatrices,
     size : RasterSizes, colorPreset : ColorPresets,
     minDbParam : RasterMinDb, maxDbParam : RasterMaxDb]

\* the SpectrogramData of a dB matrix, as far as the rasterizer reads it
SpectrogramDataOf(data) ==
    [frames |-> [k \in 1..Len(data) |-> [frequencyBins |-> data[k]]]]

InitRaster ==
    /\ args \in RasterArgs
    /\ result = Pending
    /\ audioData = NoArgs
    /\ options = NoArgs
    /\ pc = "call"
    /\ partIndex = 0
    /\ globalDbRange = NoRange
    /\ calls = << >>
    /\ files = << >>

CreateSpectrogramImage ==
    /\ pc = "call"
    /\ \E r \in {createSpectrogramImage(SpectrogramDataOf(args.data),
                                         Path("out", 0), args.size[1],
                                         args.size[2], args.colorPreset,
                                         "linear", "linear", Null, Null, 2,
                                         args.minDbParam, args.maxDbParam)} :
          \E pixels \in {IF r.error = "none" THEN Pixels(r.image)
                          ELSE << >>} :
          /\ result' = [op |-> "createSpectrogramImage", error |-> r.error,
                        written |-> r.written, image |-> r.image,
                        pixels |-> pixels,
                        fills |-> IF r.error = "none"
                                  THEN Fills(r.image, pixels) ELSE << >>]
          /\ files' = IF r.written THEN Append(files, r.image) ELSE files
    /\ pc' = "returned"
    /\ UNCHANGED <<audioData, options, partIndex, globalDbRange, calls, args>>

NextRaster == CreateSpectrogramImage

SpecRaster == InitRaster /\ [][NextRaster]_vars

(***************************************************************************)
(* The colour of one intensity: applyMapping, then getColor (lines         *)
(* 828-831).                                                               *)
(***************************************************************************)
\* the intensities k/16 and k/20 of [0, 1]
ColorIntensities ==
    {Rat(p[1], p[2]) : p \in {q \in (0..20) \X {16, 20} : q[1] <= q[2]}}

ColorArgs ==
    [op : {"getColor"}, clamped : ColorIntensities,
     mappingType : MappingTypes, colorPreset : ColorPresets]

InitColor ==
    /\ args \in ColorArgs
    /\ result = Pending
    /\ audioData = NoArgs
    /\ options = NoArgs
    /\ pc = "call"
    /\ partIndex = 0
    /\ globalDbRange = NoRange
    /\ calls = << >>
    /\ files = << >>

GetColor ==
    /\ pc = "call"
    /\ \E mapped \in {applyMapping(args.clamped, args.mappingType)} :
          result' = [op |-> "getColor", mapped |-> mapped,
                     color |-> getColor(mapped, args.colorPreset)]
    /\ pc' = "returned"
    /\ UNCHANGED <<audioData, options, partIndex, globalDbRange, calls, files,
                   args>>

NextColor == GetColor

SpecColor == InitColor /\ [][NextColor]_vars

(***************************************************************************)
(* The time ranges and widths of the parts: the arithmetic of the loop of  *)
(* index.ts 143-147 for one duration and one number of pixels per second,  *)
(* the render of each part left out.                                       *)
(***************************************************************************)
PartDurations == {Rat(k, 2) : k \in 1..24}
PartPixelsPerSecond == {Rat(1, 2), RInt(1), RInt(3)}

InitParts ==
    /\ audioData \in [duration : PartDurations]
    /\ options \in [pixelsPerSecond : PartPixelsPerSecond]
    /\ args = NoArgs
    /\ result = [op |-> "parts", width |-> TotalWidth(audioData, options),
                 parts |-> << >>]
    /\ pc = "loaded"
    /\ partIndex = 0
    /\ globalDbRange = NoRange
    /\ calls = << >>
    /\ files = << >>

\* lines 115-116: the multi-part flow is taken
SplitParts ==
    /\ pc = "loaded"
    /\ TotalWidth(audioData, options) > MAX_WIDTH
    /\ pc' = "parts"
    /\ UNCHANGED <<audioData, options, partIndex, globalDbRange, calls, files,
                   args, result>>

\* lines 143-147 for i = partIndex
PartRange ==
    /\ pc = "parts"
    /\ partIndex < NumImages(audioData, options)
    /\ result' =
          [result EXCEPT !.parts =
              Append(@, [startTime |-> PartStartTime(options, partIndex),
                         endTime |-> PartEndTime(audioData, options, partIndex),
                         partWidthActual |->
                            PartWidthActual(audioData, options, partIndex)])]
    /\ partIndex' = partIndex + 1
    /\ UNCHANGED <<audioData, options, pc, globalDbRange, calls, files, args>>

\* the loop ends at i = numImages
PartsDone ==
    /\ pc = "parts"
    /\ partIndex >= NumImages(audioData, options)
    /\ pc' = "done"
    /\ UNCHANGED <<audioData, options, partIndex, globalDbRange, calls, files,
                   args, result>>

NextParts == SplitParts \/ PartRange \/ PartsDone

SpecParts == InitParts /\ [][NextParts]_vars

(***************************************************************************)
(* Properties of one call of generateSpectrogram (SpecRender).             *)
(***************************************************************************)
IsPowerOfTwo(n) == n >= 1 /\ 2^FloorLog2(n) = n

Returned == pc = "returned"

\* numFrames of the call whose arguments are args
CallNumFrames ==
    NumFrames(audioData, args.startTime,
              ActualDuration(audioData, args.startTime, args.endTime),
              args.fftSize, args.hopSize)

WithinCanvas == args.width <= MAX_CANVAS_SIZE /\ args.height <= MAX_CANVAS_SIZE

\* C1: a call whose fftSize is not a power of two ends in an error, with no
\* frame windowed or transformed and no image written.
C1_NonPowerOfTwoRejected ==
    (Returned /\ ~IsPowerOfTwo(args.fftSize)) =>
        /\ result.error # "none"
        /\ result.spectrogramData.windowed = 0
        /\ result.spectrogramData.transformed = 0
        /\ ~result.written

\* an fftSize of 6 on audio of at least one frame: every frame is windowed
\* and transformed and the image is written
C1_SilentlyAccepted ==
    /\ Returned
    /\ args.fftSize = 6
    /\ result.error = "none"
    /\ result.spectrogramData.transformed >= 1
    /\ result.written

\* C2: with numFrames <= 0, width >= 1 and height >= 1 (within the canvas
\* limit, fftSize a power of two) the call returns without an error and the
\* image is written.
C2_EmptyMatrixRendered ==
    (/\ Returned
     /\ CallNumFrames <= 0
     /\ args.width >= 1 /\ args.height >= 1
     /\ WithinCanvas
     /\ IsPowerOfTwo(args.fftSize)) =>
        result.error = "none" /\ result.written

\* the canvas was created, then the pixel loop raised on the empty matrix
C2_EmptyMatrixRaises ==
    /\ Returned
    /\ CallNumFrames <= 0
    /\ args.width >= 1 /\ args.height >= 1
    /\ result.error = "TypeError"
    /\ result.canvasCreated
    /\ ~result.written

\* C3: with numFrames <= 0 calculateSpectrogram does not raise and returns no
\* frames, with the metadata fields set from its arguments.
C3_EmptyFrameSequence ==
    (Returned /\ CallNumFrames <= 0) =>
        /\ result.spectrogramData.error = "none"
        /\ result.spectrogramData.frames = << >>
        /\ result.spectrogramData.windowed = 0
        /\ result.spectrogramData.sampleRate = audioData.sampleRate
        /\ result.spectrogramData.fftSize = args.fftSize
        /\ result.spectrogramData.hopSize = args.hopSize
        /\ result.spectrogramData.numFrequencyBins = Rat(args.fftSize, 2)
        /\ result.spectrogramData.duration =
                ActualDuration(audioData, args.startTime, args.endTime)

\* a sub-range shorter than one frame, with an fftSize that is odd
C3_Witness ==
    /\ Returned
    /\ CallNumFrames <= 0
    /\ args.fftSize = 3
    /\ Truthy(args.endTime)
    /\ result.spectrogramData.frames = << >>

\* C4: createSpectrogramImage raises before the canvas is created and before
\* a file is written when width or height exceeds MAX_CANVAS_SIZE, and the
\* size check does not raise when both are at most MAX_CANVAS_SIZE.
C4_CanvasSizeCheck ==
    (Returned /\ result.spectrogramData.error = "none") =>
        /\ ~WithinCanvas =>
              /\ result.error = "Error"
              /\ ~result.canvasCreated
              /\ ~result.written
              /\ files = << >>
        /\ WithinCanvas => result.error # "Error"

\* the height alone is over the limit
C4_Witness ==
    /\ Returned
    /\ args.width = MAX_CANVAS_SIZE
    /\ args.height = MAX_CANVAS_SIZE + 1
    /\ result.error = "Error"
    /\ ~result.canvasCreated

(***************************************************************************)
(* Properties of the command-line action (Spec).                           *)
(***************************************************************************)
SplitFlow == TotalWidth(audioData, options) > MAX_WIDTH

RangeCalls == {k \in 1..Len(calls) : calls[k].op = "calculateGlobalDbRange"}
RenderCalls == {k \in 1..Len(calls) : calls[k].op = "generateSpectrogram"}
PartCalls == {k \in RenderCalls : calls[k].outputPath.kind = "part"}

\* the dB values of a matrix
MatrixValues(matrix) ==
    {matrix[k][i] : k \in 1..Len(matrix), i \in 1..(options.fftSize \div 2)}

\* C5: in the multi-part flow the global range is computed once, before the
\* overview and before every part, and each of these renders is given the
\* minDb and maxDb that computation returned.
C5_GlobalRangeOnceBeforeRenders ==
    SplitFlow =>
        /\ Cardinality(RangeCalls) <= 1
        /\ pc \in {"overview", "parts", "done"} => Cardinality(RangeCalls) = 1
        /\ \A k \in RenderCalls :
            \E j \in RangeCalls :
                /\ j < k
                /\ calls[k].minDbParam = calls[j].returned.minDb
                /\ calls[k].maxDbParam = calls[j].returned.maxDb
        /\ pc = "done" =>
            {calls[k].outputPath : k \in RenderCalls} =
                {Path("overview", 0)}
                \cup {Path("part", i) : i \in 1..NumImages(audioData, options)}

\* a finished multi-part run whose range is not the fallback
C5_Witness ==
    /\ pc = "done"
    /\ SplitFlow
    /\ Cardinality(PartCalls) >= 2
    /\ globalDbRange.minDb > MinDbDisplay
    /\ globalDbRange.minDb < globalDbRange.maxDb

\* C6: every dB value above the display floor in the matrix of any part lies
\* inside the global range [minDb, maxDb].
C6_PartValuesInsideGlobalRange ==
    \A k \in PartCalls :
        \A v \in MatrixValues(calls[k].matrix) :
            v > MinDbDisplay =>
                globalDbRange.minDb <= v /\ v <= globalDbRange.maxDb

\* a part rendered at a hop size other than the one the range was computed
\* with holds a value above the maximum of the range
C6_ValueAboveGlobalMax ==
    \E k \in PartCalls :
        /\ calls[k].hopSize # DEFAULT_HOP_SIZE
        /\ calls[k].error = "none"
        /\ \E v \in MatrixValues(calls[k].matrix) : v > globalDbRange.maxDb

(***************************************************************************)
(* Properties of calculateGlobalDbRange (SpecRange).                       *)
(***************************************************************************)
\* the dB values of all frames of the full-duration matrix
AllDbValues ==
    LET frames == FullSpectrogram(audioData).frames
    IN  {frames[k].frequencyBins[i] :
            k \in 1..Len(frames), i \in 1..(DEFAULT_FFT_SIZE \div 2)}

AboveFloor == {v \in AllDbValues : v > -120 * DB_SCALE}

\* C7: when no dB value exceeds the display floor the result is exactly
\* minDb = -120, maxDb = 0, dynamicRange = 120.
C7_SilentFallback ==
    (Returned /\ AboveFloor = {}) =>
        /\ result.minDb = -120 * DB_SCALE
        /\ result.maxDb = 0
        /\ result.dynamicRange = 120 * DB_SCALE

\* silent audio with frames
C7_Witness ==
    /\ Returned
    /\ AllDbValues = {-120 * DB_SCALE}
    /\ result.dynamicRange = 120 * DB_SCALE

\* C8: when some dB value exceeds the display floor, minDb and maxDb are the
\* minimum and the maximum of the values above the floor, minDb <= maxDb and
\* dynamicRange = maxDb - minDb.
C8_RangeOfValuesAboveFloor ==
    (Returned /\ AboveFloor # {}) =>
        /\ result.minDb \in AboveFloor
        /\ result.maxDb \in AboveFloor
        /\ \A v \in AboveFloor : result.minDb <= v /\ v <= result.maxDb
        /\ result.minDb <= result.maxDb
        /\ result.dynamicRange = result.maxDb - result.minDb

\* values at the floor beside two different values above it
C8_Witness ==
    /\ Returned
    /\ -120 * DB_SCALE \in AllDbValues
    /\ Cardinality(AboveFloor) >= 2
    /\ result.minDb < result.maxDb

(***************************************************************************)
(* Properties of getFrequencyIndex (SpecFreq).                             *)
(***************************************************************************)
NoBounds == args.minFrequency = Null /\ args.maxFrequency = Null

\* C9: every index returned is an integer in 0 .. numFrequencies - 1.
C9_IndexInRange ==
    \A y \in 1..Len(result) : result[y] \in 0..(args.numFrequencies - 1)

\* an image of height 1: the index of its only row is NaN
C9_IndexIsNaN ==
    /\ args.height = 1
    /\ Len(result) = 1
    /\ IsNaN(result[1])

\* C10: without frequency bounds (and a height of at least 2) the bottom row
\* y = height - 1 has index 0 and the index never decreases from the bottom
\* row to the top row.
C10_BottomRowLowestBin ==
    (NoBounds /\ args.height >= 2) =>
        /\ Len(result) = args.height => result[args.height] = 0
        /\ \A y1, y2 \in 1..Len(result) : y1 < y2 => result[y1] >= result[y2]

\* the log scale: the bottom row has the highest index, the top row a lower
C10_LogScaleInverted ==
    /\ NoBounds
    /\ args.scale = "log"
    /\ args.height >= 2
    /\ Len(result) = args.height
    /\ result[args.height] = args.numFrequencies - 1
    /\ result[1] < result[args.height]

HasBounds == args.minFrequency # Null \/ args.maxFrequency # Null

\* the frequency of row y between the bounds, a missing or zero bound being
\* 0 Hz or Nyquist, as a ratio of Nyquist
LinearBetweenBounds(y) ==
    LET lo == IF args.minFrequency \in {Null, 0} THEN 0
              ELSE 2 * args.minFrequency
        hi == IF args.maxFrequency \in {Null, 0} THEN args.sampleRate
              ELSE 2 * args.maxFrequency
    IN  Rat(lo * (args.height - 1) + (args.height - 1 - y) * (hi - lo),
            args.sampleRate * (args.height - 1))

\* the bin of a ratio of Nyquist: the ratio is clamped to [0, 1]
BinOfRatio(ratio) ==
    IF RLess(ratio, RInt(0)) THEN 0
    ELSE IF RLess(RInt(1), ratio) THEN args.numFrequencies - 1
    ELSE (ratio.n * (args.numFrequencies - 1)) \div ratio.d

\* C11: when a frequency bound is given, the index of every row is the same
\* for every scale kind, and (for a height of at least 2) it is the bin of
\* the frequency mapped linearly between the bounds, divided by Nyquist.
C11_BoundsIgnoreScale ==
    HasBounds =>
        \A y \in 1..Len(result) :
            /\ \A scale \in FrequencyScales :
                    getFrequencyIndex(y - 1, args.height, args.numFrequencies,
                                      scale, args.sampleRate,
                                      args.minFrequency, args.maxFrequency)
                        = result[y]
            /\ args.height >= 2 =>
                    result[y] = BinOfRatio(LinearBetweenBounds(y - 1))

\* a log-scale image between 1000 Hz and 2000 Hz of a 8000 Hz signal: the
\* rows run from bin 3 (top) down to bin 1 (bottom) of 8
C11_Witness ==
    /\ args.scale = "log"
    /\ args.minFrequency = 1000
    /\ args.maxFrequency = 2000
    /\ args.sampleRate = 8000
    /\ args.numFrequencies = 8
    /\ args.height = 5
    /\ result = <<3, 3, 2, 2, 1>>

(***************************************************************************)
(* Properties of resampleSpectrogram (SpecResample).                       *)
(***************************************************************************)
Resampled == pc = "returned" /\ result.op = "resampleSpectrogram"

InputFrames == Len(args.data)

\* the source frames (numbered from 1) of the window of output column col
\* (numbered from 1): floor((col-1)*n/w) <= frame - 1 < floor(col*n/w)
WindowFrames(col) ==
    {k \in 1..InputFrames :
        /\ ((col - 1) * InputFrames) \div args.targetWidth <= k - 1
        /\ k - 1 < (col * InputFrames) \div args.targetWidth}

\* C12: the output has exactly targetWidth columns, each with as many bins as
\* the input columns, for every input matrix, one without frames included.
C12_ExactlyTargetWidthColumns ==
    Resampled =>
        /\ Len(result.resampled) = args.targetWidth
        /\ \A col \in 1..Len(result.resampled) : \A k \in 1..InputFrames :
                Len(result.resampled[col]) = Len(args.data[k])

\* a matrix without frames: no column is returned for a target width >= 1
C12_NoColumnsFromEmptyMatrix ==
    /\ Resampled
    /\ InputFrames = 0
    /\ args.targetWidth >= 1
    /\ result.resampled = << >>

\* C13: an input with as many frames as targetWidth is returned as it is, in
\* every column and bin.
C13_IdentityAtEqualWidth ==
    (Resampled /\ InputFrames = args.targetWidth) =>
        result.resampled = args.data

\* three frames of three bins with different values in adjacent bins,
\* resampled to width 3
C13_Witness ==
    /\ Resampled
    /\ InputFrames = 3
    /\ args.targetWidth = 3
    /\ Len(args.data[1]) = 3
    /\ args.data[1][2] # args.data[1][3]
    /\ result.resampled = args.data

\* C14: with more frames than targetWidth no window is empty and every bin of
\* every output column is the maximum of that bin over the frames of the
\* column's window (so it is a value of the window below which none lies).
C14_PeakOfWindow ==
    (Resampled /\ InputFrames > args.targetWidth) =>
        \A col \in 1..args.targetWidth :
            /\ WindowFrames(col) # {}
            /\ \A bin \in 1..Len(args.data[1]) :
                /\ \E k \in WindowFrames(col) :
                        result.resampled[col][bin] = args.data[k][bin]
                /\ \A k \in WindowFrames(col) :
                        result.resampled[col][bin] >= args.data[k][bin]

\* fifteen frames to eleven columns: the peak of the last frame is in no
\* output column
C14_LastFrameDropped ==
    /\ Resampled
    /\ InputFrames = 15
    /\ args.targetWidth = 11
    /\ WindowFrames(11) = {14, 15}
    /\ args.data[15][1] > args.data[14][1]
    /\ result.resampled[11][1] = args.data[14][1]
    /\ \A col \in 1..11 : result.resampled[col][1] < args.data[15][1]

(***************************************************************************)
(* Properties of calculateSpectrogram (SpecSegment).                       *)
(***************************************************************************)
Segmented == pc = "returned" /\ result.op = "calculateSpectrogram"

\* the call returned a matrix (an odd fftSize raises in the first frame)
SegmentReturned == Segmented /\ result.spectrogramData.error = "none"

SegmentFrames == result.spectrogramData.frames

\* startSample = floor(startTime * sampleRate)
SegmentStartSample ==
    (args.startTime.n * audioData.sampleRate) \div args.startTime.d

\* endSample = floor((startTime + min(duration, audioDuration - startTime))
\*                   * sampleRate)
SegmentEndSample ==
    LET rest  == RSub(audioData.duration, args.startTime)
        taken == IF RLeq(args.duration, rest) THEN args.duration ELSE rest
        end   == RAdd(args.startTime, taken)
    IN  (end.n * audioData.sampleRate) \div end.d

\* the first sample of frame k, frames numbered from 1
SegmentFrameStart(k) == SegmentStartSample + (k - 1) * args.hopSize

\* C15: a call that returns produces max(0, floor((endSample - startSample -
\* fftSize) / hopSize) + 1) frames, and the fftSize samples of no frame
\* extend past endSample.
C15_FrameCountFormula ==
    SegmentReturned =>
        /\ Len(SegmentFrames) =
              Max(0, ((SegmentEndSample - SegmentStartSample - args.fftSize)
                          \div args.hopSize) + 1)
        /\ \A k \in 1..Len(SegmentFrames) :
              SegmentFrameStart(k) + args.fftSize <= SegmentEndSample

\* the sub-range from 0.5 s for 1.5 s of 3 s of audio at 2 Hz: samples 1 to 4
\* give two frames of two samples at a hop of one
C15_Witness ==
    /\ SegmentReturned
    /\ Len(audioData.samples) = 6
    /\ audioData.duration = RInt(3)
    /\ args.startTime = Rat(1, 2)
    /\ args.duration = Rat(3, 2)
    /\ args.fftSize = 2
    /\ args.hopSize = 1
    /\ Len(SegmentFrames) = 2

\* C16: the k-th frame returned is computed from the samples starting at
\* startSample + k * hopSize and has timePosition startTime + k * hopSize /
\* sampleRate (k counted from 0), so timePosition increases strictly along
\* the sequence.
C16_FramesInIndexOrder ==
    SegmentReturned =>
        \A k \in 1..Len(SegmentFrames) :
            /\ SegmentFrames[k].timePosition =
                  RAdd(args.startTime,
                       Rat((k - 1) * args.hopSize, audioData.sampleRate))
            /\ SegmentFrames[k].frequencyBins =
                  FrameDb(audioData.samples, SegmentFrameStart(k), args.fftSize)
            /\ \A j \in 1..(k - 1) :
                  RLess(SegmentFrames[j].timePosition,
                        SegmentFrames[k].timePosition)

\* three frames or more, the first and the last with different spectra
C16_Witness ==
    /\ SegmentReturned
    /\ Len(SegmentFrames) >= 3
    /\ SegmentFrames[1].frequencyBins
          # SegmentFrames[Len(SegmentFrames)].frequencyBins
    /\ RLess(SegmentFrames[1].timePosition, SegmentFrames[3].timePosition)

\* C17: every frame of a returned matrix has exactly fftSize / 2 dB values,
\* the matrix's numFrequencyBins.
C17_BinsPerFrame ==
    SegmentReturned =>
        \A k \in 1..Len(SegmentFrames) :
            /\ 2 * Len(SegmentFrames[k].frequencyBins) = args.fftSize
            /\ RInt(Len(SegmentFrames[k].frequencyBins))
                  = result.spectrogramData.numFrequencyBins

\* a matrix of two frames or more for fftSize 4: two values per frame
C17_Witness ==
    /\ SegmentReturned
    /\ args.fftSize = 4
    /\ Len(SegmentFrames) >= 2
    /\ Len(SegmentFrames[2].frequencyBins) = 2

\* C18: the buffer of frame k handed to the window function has fftSize
\* positions; position i holds samples[startSample + k * hopSize + i] when
\* that index is below samples.length and 0 otherwise (no read outside the
\* sample array, which would store NaN).
C18_ZeroPaddedBuffer ==
    Segmented =>
        \A k \in 1..Len(result.frameBuffers) :
            /\ Len(result.frameBuffers[k]) = args.fftSize
            /\ \A i \in 0..(args.fftSize - 1) :
                  result.frameBuffers[k][i + 1] =
                      IF SegmentFrameStart(k) + i < Len(audioData.samples)
                      THEN audioData.samples[SegmentFrameStart(k) + i + 1]
                      ELSE 0

\* a reported duration beyond the sample array: one frame ends past the
\* array (its head is samples, its tail zeros) and one starts past it
C18_Witness ==
    /\ Segmented
    /\ \E k \in 1..Len(result.frameBuffers) :
          /\ SegmentFrameStart(k) < Len(audioData.samples)
          /\ SegmentFrameStart(k) + args.fftSize > Len(audioData.samples)
          /\ result.frameBuffers[k][1] # 0
          /\ result.frameBuffers[k][args.fftSize] = 0
    /\ \E k \in 1..Len(result.frameBuffers) :
          /\ SegmentFrameStart(k) >= Len(audioData.samples)
          /\ \A i \in 1..args.fftSize : result.frameBuffers[k][i] = 0

(***************************************************************************)
(* Properties of the pixel loop of createSpectrogramImage (SpecRaster).    *)
(***************************************************************************)
Drawn == pc = "returned" /\ result.op = "createSpectrogramImage"

\* the <<x, y>> of the pixels drawn
DrawnPixels ==
    IF Drawn /\ result.error = "none"
    THEN (0..(args.size[1] - 1)) \X (0..(args.size[2] - 1))
    ELSE {}

PixelAt(p) == result.pixels[p[1]][p[2]]

\* the range the image is drawn with
DrawnMinDb == result.image.minDb
DrawnMaxDb == result.image.maxDb

\* C19: with maxDb above minDb, every pixel whose bin index lies in its
\* column has the intensity clamp((stored - minDb) / (maxDb - minDb), 0, 1)
\* of the value stored there, 0 dB included; minDb stands in for the stored
\* value only when the index is outside the column.
C19_StoredValueNormalized ==
    \A p \in DrawnPixels :
        DrawnMaxDb > DrawnMinDb =>
            IF PixelAt(p).stored # Null
            THEN /\ PixelAt(p).db = PixelAt(p).stored
                 /\ PixelAt(p).clamped =
                       ClampRatio(Rat(PixelAt(p).stored - DrawnMinDb,
                                      DrawnMaxDb - DrawnMinDb))
            ELSE PixelAt(p).db = DrawnMinDb

\* a stored value of 0 dB in the default range -120 .. 0 dB: the pixel is
\* drawn with the floor, intensity 0 instead of 1
C19_ZeroDbDrawnAsFloor ==
    /\ Drawn
    /\ result.error = "none"
    /\ DrawnMinDb = MinDbDisplay
    /\ DrawnMaxDb = MaxDbTheoretical
    /\ \E p \in DrawnPixels :
          /\ PixelAt(p).stored = 0
          /\ PixelAt(p).db = MinDbDisplay
          /\ PixelAt(p).clamped = RInt(0)

\* C20: with maxDb equal to or below minDb the call does not raise, the
\* intensity of every pixel is a number in [0, 1], and it is 0 for every
\* stored value at or below minDb.
C20_DegenerateRangeClamped ==
    (Drawn /\ result.image.maxDb <= result.image.minDb) =>
        /\ result.error = "none"
        /\ result.written
        /\ \A p \in DrawnPixels :
              /\ ~IsNaNRat(PixelAt(p).clamped)
              /\ RLeq(RInt(0), PixelAt(p).clamped)
              /\ RLeq(PixelAt(p).clamped, RInt(1))
              /\ (PixelAt(p).stored # Null
                    /\ PixelAt(p).stored <= DrawnMinDb)
                  => PixelAt(p).clamped = RInt(0)

\* minDb = maxDb = -60 dB: a stored -30 dB is drawn with intensity 1, a
\* stored -120 dB with intensity 0; and maxDb below minDb
C20_Witness ==
    /\ Drawn
    /\ result.error = "none"
    /\ DrawnMinDb = -60 * DB_SCALE
    /\ DrawnMaxDb = -60 * DB_SCALE
    /\ \E p \in DrawnPixels :
          /\ PixelAt(p).stored = -30 * DB_SCALE
          /\ PixelAt(p).normalized = RInt(PosInfinity)
          /\ PixelAt(p).clamped = RInt(1)
    /\ \E p \in DrawnPixels :
          /\ PixelAt(p).stored = MinDbDisplay
          /\ PixelAt(p).clamped = RInt(0)

(***************************************************************************)
(* Properties of the colours (SpecRaster, SpecColor).                      *)
(***************************************************************************)
ColorInRange(color) ==
    /\ color.r \in 0..255
    /\ color.g \in 0..255
    /\ color.b \in 0..255

\* the fillRect calls that paint the pixel (x, y)
FillsAt(x, y) ==
    {k \in DOMAIN result.fills :
        result.fills[k].x = x /\ result.fills[k].y = y}

Colored == pc = "returned" /\ result.op = "getColor"

\* C22: the heat palette gives (0, 0, 0) for the intensity 0 and
\* (255, 255, 255) for the intensity 1.
C22_HeatEndpoints ==
    (Colored /\ args.colorPreset = "heat") =>
        /\ result.mapped = RInt(0) =>
               result.color = [r |-> 0, g |-> 0, b |-> 0]
        /\ result.mapped = RInt(1) =>
               result.color = [r |-> 255, g |-> 255, b |-> 255]

\* the heat palette at the intensity 1: the blue channel is 254
C22_HeatWhiteOffByOne ==
    /\ Colored
    /\ args.colorPreset = "heat"
    /\ args.mappingType = "linear"
    /\ result.mapped = RInt(1)
    /\ result.color = [r |-> 255, g |-> 255, b |-> 254]

(***************************************************************************)
(* Properties of the options of a run (Spec).                              *)
(***************************************************************************)
\* the dB spectrum of the frame of fftSize samples from startSample on,
\* windowed by windowType
SpectrumWindowedBy(samples, startSample, fftSize, windowType) ==
    Fixed(convertToDBSpectrum(
              Fixed(calculatePowerSpectrum(
                        performFFT(Fixed(applyWindow(
                            Fixed(FrameSamples(samples, startSample, fftSize)),
                            windowType))),
                        fftSize)),
              fftSize))

\* the first sample of frame f (from 1) of the render call k
CallFrameStart(k, f) ==
    StartFrame(audioData, calls[k].startTime) + (f - 1) * calls[k].hopSize

\* the render calls that computed a spectrogram
ComputedCalls == {k \in RenderCalls : calls[k].error = "none"}

\* C23: every frame of every spectrogram computed in a run is the spectrum
\* of its samples windowed by the window kind given with --window.
C23_SelectedWindowApplied ==
    \A k \in ComputedCalls :
        \A f \in 1..Len(calls[k].matrix) :
            calls[k].matrix[f] =
                SpectrumWindowedBy(audioData.samples, CallFrameStart(k, f),
                                   calls[k].fftSize, options.window)

\* a run with --window blackman: a frame of a computed spectrogram is the
\* Hanning-windowed spectrum of its samples and differs from the
\* Blackman-windowed one
C23_BlackmanRunUsesHanning ==
    /\ options.window = "blackman"
    /\ pc = "done"
    /\ \E k \in ComputedCalls :
          \E f \in 1..Len(calls[k].matrix) :
              /\ calls[k].matrix[f] =
                    SpectrumWindowedBy(audioData.samples, CallFrameStart(k, f),
                                       calls[k].fftSize, "hanning")
              /\ calls[k].matrix[f] #
                    SpectrumWindowedBy(audioData.samples, CallFrameStart(k, f),
                                       calls[k].fftSize, "blackman")

\* the images rendered in the run: the files written by generateSpectrogram
RenderedImages ==
    {k \in 1..Len(files) :
        files[k].path.kind \in {"single", "overview", "part"}}

\* C24: a --min-db or --max-db given by the user is the minDb or maxDb of
\* every image rendered in the run, in the single-image flow and in the
\* multi-part flow.
C24_UserRangeInEveryImage ==
    \A k \in RenderedImages :
        /\ options.minDb # Null => files[k].minDb = options.minDb
        /\ options.maxDb # Null => files[k].maxDb = options.maxDb

\* a finished multi-part run with --min-db -60: the overview and a part are
\* drawn with the minimum of the global range instead
C24_SplitRunIgnoresUserMinDb ==
    /\ pc = "done"
    /\ SplitFlow
    /\ options.minDb = -60 * DB_SCALE
    /\ \E k \in RenderedImages :
          /\ files[k].path.kind = "overview"
          /\ files[k].minDb = GlobalMinDb(globalDbRange)
          /\ files[k].minDb # options.minDb
    /\ \E k \in RenderedImages :
          /\ files[k].path.kind = "part"
          /\ files[k].minDb = GlobalMinDb(globalDbRange)
          /\ files[k].minDb # options.minDb

(***************************************************************************)
(* Properties of the calls of a run (Spec).                                *)
(***************************************************************************)
\* the call c of generateSpectrogram, made again on audio
RenderedAgain(c, audio) ==
    RenderCall(c.outputPath, c.width, c.height, c.minDbParam, c.maxDbParam,
               c.fftSize, c.hopSize, c.startTime, c.endTime,
               generateSpectrogram(audio, c.outputPath, c.width, c.height,
                                   options.color, options.scale,
                                   options.mapping, options.minFrequency,
                                   options.maxFrequency, c.minDbParam,
                                   c.maxDbParam, c.fftSize, c.hopSize,
                                   c.startTime, c.endTime))

\* the call c repeated on audio has the outcome recorded in c
SameOutcomeAgain(c, audio) ==
    CASE c.op = "generateSpectrogram" -> c = RenderedAgain(c, audio)
      [] c.op = "calculateGlobalDbRange" ->
           c.returned = calculateGlobalDbRange(audio)
      [] OTHER -> TRUE

CallWindow(i) == Window(i, InputFrames, args.targetWidth)

\* the output columns (from 0) whose window holds the source frame k (from 0)
WindowsHolding(k) ==
    {i \in 0..(args.targetWidth - 1) :
        CallWindow(i).startFrame <= k /\ k < CallWindow(i).endFrame}

\* C26: with more frames than targetWidth the windows of the downsamplers
\* partition the source frames: the first starts at frame 0, each starts
\* where the one before ends, none is empty, and every source frame is in
\* exactly one window.
C26_WindowsPartitionFrames ==
    (Resampled /\ InputFrames > args.targetWidth) =>
        /\ CallWindow(0).startFrame = 0
        /\ \A i \in 0..(args.targetWidth - 2) :
              CallWindow(i).endFrame = CallWindow(i + 1).startFrame
        /\ \A i \in 0..(args.targetWidth - 1) :
              CallWindow(i).numFramesInWindow > 0
        /\ \A k \in 0..(InputFrames - 1) :
              Cardinality(WindowsHolding(k)) = 1

\* fifteen frames to eleven columns: the last window ends at frame 14, and
\* frame 14, the last one, is in no window
C26_LastFrameInNoWindow ==
    /\ Resampled
    /\ InputFrames = 15
    /\ args.targetWidth = 11
    /\ CallWindow(10).startFrame = 13
    /\ CallWindow(10).endFrame = 14
    /\ WindowsHolding(14) = {}
    /\ \A k \in 0..13 : Cardinality(WindowsHolding(k)) = 1

\* C27: with at least one frame and fewer frames than targetWidth, output
\* column 0 is source frame 0 and output column targetWidth - 1 is the last
\* source frame, bin for bin.
C27_UpsampleKeepsEndFrames ==
    (Resampled /\ InputFrames >= 1 /\ InputFrames < args.targetWidth) =>
        /\ result.resampled[1] = args.data[1]
        /\ result.resampled[args.targetWidth] = args.data[InputFrames]

\* two frames of three bins to four columns: the middle bin of column 0 is
\* halfway between the middle and the upper bin of frame 0
C27_EndColumnBlendsBins ==
    /\ Resampled
    /\ InputFrames = 2
    /\ args.targetWidth = 4
    /\ Len(args.data[1]) = 3
    /\ args.data[1][2] = -80 * DB_SCALE
    /\ args.data[1][3] = -20 * DB_SCALE
    /\ result.resampled[1][1] = args.data[1][1]
    /\ result.resampled[1][2] = -50 * DB_SCALE
    /\ result.resampled[1][3] = args.data[1][3]

(***************************************************************************)
(* Properties of the parts (SpecParts).                                    *)
(***************************************************************************)
Planned == pc = "done" /\ result.op = "parts"

RECURSIVE SumPartWidths(_, _)
SumPartWidths(parts, n) ==
    IF n = 0 THEN 0
    ELSE SumPartWidths(parts, n - 1) + parts[n].partWidthActual

\* C28: the parts tile the recording: part 1 starts at 0, each part starts
\* where the one before ends, the last part ends at the duration, every part
\* is between 1 and MAX_WIDTH pixels wide, and the widths add up to the
\* total width ceil(duration * pixelsPerSecond).
C28_PartsTileRecording ==
    Planned =>
        /\ Len(result.parts) = NumImages(audioData, options)
        /\ result.parts[1].startTime = RInt(0)
        /\ \A i \in 1..(Len(result.parts) - 1) :
              result.parts[i + 1].startTime = result.parts[i].endTime
        /\ result.parts[Len(result.parts)].endTime = audioData.duration
        /\ \A i \in 1..Len(result.parts) :
              result.parts[i].partWidthActual \in 1..MAX_WIDTH
        /\ SumPartWidths(result.parts, Len(result.parts)) = result.width

\* 3 pixels per second: the fifth part, a full one, is MAX_WIDTH + 1 pixels
\* wide, and the widths add up to more than the total width
C28_PartWiderThanMaxWidth ==
    /\ Planned
    /\ options.pixelsPerSecond = RInt(3)
    /\ Len(result.parts) >= 6
    /\ result.parts[5].endTime = PartStartTime(options, 5)
    /\ result.parts[5].partWidthActual = MAX_WIDTH + 1
    /\ SumPartWidths(result.parts, Len(result.parts)) > result.width

(***************************************************************************)
(* Properties of the multi-part flow (Spec).                               *)
(***************************************************************************)
StitchCalls == {k \in 1..Len(calls) : calls[k].op = "stitchParts"}

\* C29: in the multi-part flow the calls are made in the order global
\* range, overview, part 1 to part numImages by rising index, stitchParts;
\* stitchParts is called only after every part was rendered, with numParts
\* the number of parts rendered, and never after a render that raised.
C29_RangeOverviewPartsStitch ==
    SplitFlow =>
        /\ Len(calls) <= NumImages(audioData, options) + 3
        /\ \A k \in 1..Len(calls) :
              CASE k = 1 -> calls[k].op = "calculateGlobalDbRange"
                [] k = 2 ->
                     /\ calls[k].op = "generateSpectrogram"
                     /\ calls[k].outputPath = Path("overview", 0)
                [] k \in 3..(NumImages(audioData, options) + 2) ->
                     /\ calls[k].op = "generateSpectrogram"
                     /\ calls[k].outputPath = Path("part", k - 2)
                [] OTHER -> calls[k].op = "stitchParts"
        /\ \A k \in StitchCalls :
              /\ Cardinality(PartCalls) = NumImages(audioData, options)
              /\ calls[k].numParts = Cardinality(PartCalls)
              /\ \A j \in RenderCalls : j < k /\ calls[j].error = "none"

\* a finished multi-part run of three parts, stitched last
C29_Witness ==
    /\ SplitFlow
    /\ pc = "done"
    /\ NumImages(audioData, options) = 3
    /\ Len(calls) = 6
    /\ calls[6].op = "stitchParts"
    /\ calls[6].numParts = 3
    /\ calls[6].error = "none"

\* the stitched images among the files
StitchedImages == {k \in 1..Len(files) : files[k].path.kind = "stitched"}

\* the width of the image of part i as it is on disk when file k is written
PartWidthOnDisk(k, i) ==
    LET written == {j \in 1..(k - 1) : files[j].path = Path("part", i)}
    IN  files[CHOOSE j \in written : \A other \in written : other <= j].width

RECURSIVE WidthOfParts(_, _)
WidthOfParts(k, n) ==
    IF n = 0 THEN 0 ELSE WidthOfParts(k, n - 1) + PartWidthOnDisk(k, n)

\* C30: the stitched image holds the parts in part order, part i at top 0
\* and at the left offset that is the sum of the widths of the parts
\* 1 .. i - 1, so that each part begins where the one before ends, and the
\* stitched image is as wide as all parts together.
C30_PartsSideBySide ==
    \A k \in StitchedImages :
        /\ Len(files[k].operations) = NumImages(audioData, options)
        /\ \A i \in 1..Len(files[k].operations) :
              /\ files[k].operations[i].input = Path("part", i)
              /\ files[k].operations[i].top = 0
              /\ files[k].operations[i].left = WidthOfParts(k, i - 1)
        /\ \A i \in 1..(Len(files[k].operations) - 1) :
              files[k].operations[i + 1].left =
                  files[k].operations[i].left + PartWidthOnDisk(k, i)
        /\ files[k].width = WidthOfParts(k, Len(files[k].operations))

\* two parts of 2 and 1 pixels stitched to an image of 3 pixels, the second
\* part at the left offset 2
C30_Witness ==
    /\ pc = "done"
    /\ \E k \in StitchedImages :
          /\ Len(files[k].operations) = 2
          /\ PartWidthOnDisk(k, 1) = 2
          /\ PartWidthOnDisk(k, 2) = 1
          /\ files[k].operations[1].left = 0
          /\ files[k].operations[2].left = 2
          /\ files[k].width = 3

====
